---- MODULE Spec2Model ----
(***************************************************************************)
(* A model of github/go-pipe: the Pipeline orchestrator (pipe/pipeline.go), *)
(* the command stage and the function stage, as state machines.            *)
(*                                                                         *)
(*   Spec      one goroutine drives New / Add / Run on a pipeline of       *)
(*             built-in stages; function stages return concurrently.       *)
(*   WaitSpec  the same machine for pipelines of function stages only,     *)
(*             longer and with more stage results: the error reduction of   *)
(*             Pipeline.Wait.                                              *)
(*   RaceSpec  Spec plus a second goroutine that calls Add while the first  *)
(*             one runs Start.                                             *)
(*   CmdSpec   one command stage in detail: spawn, context watchdog, Kill,  *)
(*             Wait.                                                       *)
(*   LimitSpec CmdSpec plus the MemoryLimit watcher of the stage.          *)
(*   ObserveSpec  a command stage under MemoryObserver, in a pipeline.      *)
(*   WatchersSpec LimitSpec and ObserveSpec together.                       *)
(*   GoSpec    one function stage in detail: the goroutine and Wait.        *)
(*   NewSpec   New applied to a list of options.                            *)
(*   CacheSpec the cgroup cache under concurrent callers.                  *)
(*   IsoSpec   one cgroup isolation policy, set up and torn down.           *)
(* StartRaceSpec, PipedSpec, WatchLiveSpec, EnvSpec, KillSpec and           *)
(* RewaitSpec are described where they are defined.                        *)
(***************************************************************************)
EXTENDS Integers, Sequences, FiniteSets, TLC

\* longest stage list in Spec and RaceSpec
MaxStages == 2
\* longest stage list in WaitSpec
MaxWaitStages == 3

Max(a, b) == IF a > b THEN a ELSE b

-----------------------------------------------------------------------------
(* Errors.  A stage's Wait returns one of these values; "nil" is Go's nil. *)

NoErr == "nil"
FinishEarly == "FinishEarly"
ErrNotStarted == "exec: not started"

\* the errors a stage's Wait may return in Spec / RaceSpec
RunResults == {NoErr, FinishEarly, "EPIPE", "E1"}
\* the errors a function stage may return in WaitSpec
WaitResults == {NoErr, FinishEarly, "EPIPE", "ErrClosedPipe", "E1", "E2"}

\* IsPipeError: the error is io.ErrClosedPipe or syscall.EPIPE.
IsPipeError(err) == err \in {"EPIPE", "ErrClosedPipe"}

\* what Start / Wait / Run hand back: nothing yet, nil, or a wrapped error
RetNone == [kind |-> "none", stage |-> 0, err |-> NoErr]
RetNil == [kind |-> "nil", stage |-> 0, err |-> NoErr]
\* fmt.Errorf("%s: %w", stage.Name(), err)
WrapStage(name, err) == [kind |-> "stage", stage |-> name, err |-> err]
\* fmt.Errorf("starting pipeline stage %q: %w", stage.Name(), err)
WrapStart(name, err) == [kind |-> "start", stage |-> name, err |-> err]

\* a stage is named after its position in the list
Name(i) == i

-----------------------------------------------------------------------------
(* Readers and writers.  A handle is a Go value of some dynamic type that   *)
(* refers to a resource: an end of inter-stage pipe number `pipe`, or the   *)
(* caller's own stdin / stdout.                                            *)

NilH == [kind |-> "nil", end |-> "-", pipe |-> 0]
Handle(kind, end, pipe) == [kind |-> kind, end |-> end, pipe |-> pipe]

MaxPipes == Max(MaxStages, MaxWaitStages) - 1

NoPipe == [kind |-> "none", r |-> 0, w |-> 0]
IoInit == [pipes |-> [i \in 1..MaxPipes |-> NoPipe], inC |-> 0, outC |-> 0]

WriterToWrapperCloses(kind) == kind \notin {"nil", "nop"}
\* Close() of the nop wrappers returns nil and touches nothing
ClosesUnderlying(kind) == kind \notin {"nil", "nop", "nopwt"}

\* the resource table after h.Close()
CloseH(t, h) ==
    IF ~ClosesUnderlying(h.kind) THEN t
    ELSE IF h.end = "IN" THEN [t EXCEPT !.inC = @ + 1]
    ELSE IF h.end = "OUT" THEN [t EXCEPT !.outC = @ + 1]
    ELSE IF h.end = "R" THEN [t EXCEPT !.pipes[h.pipe].r = @ + 1]
    ELSE [t EXCEPT !.pipes[h.pipe].w = @ + 1]

RECURSIVE CloseSeq(_, _)
CloseSeq(t, hs) ==
    IF hs = <<>> THEN t ELSE CloseSeq(CloseH(t, Head(hs)), Tail(hs))

-----------------------------------------------------------------------------
(* Stages.                                                                 *)

IOPreferenceUndefined == "Undefined"
IOPreferenceFile == "File"
IOPreferenceNil == "Nil"

\* a command stage (with cmd.Stdin / cmd.Stdout preset by the caller or not)
\* or a function stage
CmdStage(inSet, outSet) == [kind |-> "cmd", stdinSet |-> inSet, stdoutSet |-> outSet]
FnStage == [kind |-> "fn", stdinSet |-> FALSE, stdoutSet |-> FALSE]
StageConfigs == {CmdStage(a, b) : a, b \in BOOLEAN} \cup {FnStage}

\* commandStage.Preferences / goStage.Preferences
Preferences(s) ==
    IF s.kind = "fn"
    THEN [StdinPreference |-> IOPreferenceUndefined,
          StdoutPreference |-> IOPreferenceUndefined]
    ELSE [StdinPreference |-> IF s.stdinSet THEN IOPreferenceNil ELSE IOPreferenceFile,
          StdoutPreference |-> IF s.stdoutSet THEN IOPreferenceNil ELSE IOPreferenceFile]

\* commandStage.Start2: what the stage does with the stdin it is handed
StdinRegime(h) ==
    CASE h.kind = "nil" -> "none"
      [] h.kind \in {"nop", "nopwt"} -> "keep"
      [] h.kind = "file" -> "early"
      [] OTHER -> "late"

StdoutRegimeNoFileCase(h) ==
    CASE h.kind = "nil" -> "none"
      [] h.kind = "nop" -> "keep"
      [] OTHER -> "late"
\* commandStage.Start2: what the stage does with the stdout it is handed
StdoutRegime(h) ==
    CASE h.kind = "nil" -> "none"
      [] h.kind = "nop" -> "keep"
      [] h.kind = "file" -> "early"
      [] OTHER -> "late"

EarlyClosers(in, out) ==
    (IF StdinRegime(in) = "early" THEN <<in>> ELSE <<>>) \o
    (IF StdoutRegime(out) = "early" THEN <<out>> ELSE <<>>)
LateClosers(in, out) ==
    (IF StdinRegime(in) = "late" THEN <<in>> ELSE <<>>) \o
    (IF StdoutRegime(out) = "late" THEN <<out>> ELSE <<>>)

\* the stage as the pipeline sees it at run time
NewRt == [status |-> "new", stdin |-> NilH, stdout |-> NilH, late |-> <<>>,
          res |-> NoErr, waits |-> 0]

-----------------------------------------------------------------------------
VARIABLES
    p_stdin,        \* Pipeline.stdin
    p_stdout,       \* Pipeline.stdout
    stages,         \* Pipeline.stages
    started,        \* Pipeline.started # 0
    ctxDone,        \* the context derived in Start has been cancelled
    pc,             \* where the goroutine that drives the pipeline is
    idx,            \* its loop index (Start, abort, Wait)
    ss,             \* stageStarters of Start
    fail,           \* arguments of abort
    io,             \* pipes created and how often each end was closed
    rt,             \* run-time state of each stage
    finishedEarly,  \* Wait's local finishedEarly
    earliest,       \* Wait's locals earliestFailedStage, earliestStageErr
    events,         \* what the event handler has received
    startRet,       \* what Start returned
    waitRet,        \* what Wait returned
    adder,          \* a second goroutine calling Add
    \* one command stage (CmdSpec, LimitSpec)
    cctx,           \* the context given to Start2: "live", or its Err()
    spw,            \* Start2 not called, returned nil, or returned an error
    cstd,           \* the stdin and stdout given to Start2, and their closes
    proc,           \* cmd.Process: none, running, exited, reaped
    exit,           \* how the child ended, and whose signal ended it
    ctxErr,         \* commandStage.ctxErr
    done,           \* commandStage.done is closed
    drain,          \* the goroutine that copies stderr (commandStage.wg)
    kl,             \* the goroutines that may call Kill: where each one is
    cw,             \* commandStage.Wait: where it is, and its locals
    cret,           \* what commandStage.Wait returned
    crashed,        \* a goroutine has panicked
    lw,             \* the MemoryLimit watcher's locals
    cevents,        \* events of the watcher
    mw,             \* memoryWatchStage: its context and its Wait
    \* further callers, and the environment of a command
    st2,            \* a second goroutine calling Pipeline.Start
    pw,             \* Pipeline.Wait over the command stage: where it is
    cw2,            \* a second call of commandStage.Wait
    kills,          \* calls of Kill made from outside the stage
    envBase,        \* cmd.Env (or os.Environ()) before setupEnv
    envVars,        \* what the producers of Env.Vars append, in order
    envOut,         \* cmd.Env after setupEnv
    \* one function stage on its own
    gs,             \* goStage: its goroutine, s.err, s.done and its Wait
    ob,             \* logMaxRSS: its local variables, and its samples so far
    nw,             \* New(options...): the options, and the Pipeline it returns
    \* cgroups
    cg,             \* CgroupCache, the cgroup filesystem and the callers of the cache
    iso             \* CgroupsV2Isolation: its manager, and its calls of Setup

pvars == <<p_stdin, p_stdout, stages, started, ctxDone, pc, idx, ss, fail, io,
           rt, finishedEarly, earliest, events, startRet, waitRet, adder>>
cvars == <<cctx, spw, cstd, proc, exit, ctxErr, done, drain, kl, cw, cret,
           crashed, lw, cevents, mw>>
xvars == <<st2, pw, cw2, kills, envBase, envVars, envOut>>
zvars == <<cg, iso>>
yvars == <<gs, ob, nw, zvars>>

NoFail == [at |-> 0, err |-> NoErr]
NoStageErr == [stage |-> 0, err |-> NoErr]
AdderIdle == [pc |-> "idle", arg |-> FnStage]

\* nobody else calls Start, Wait or Kill, and no environment is assembled
XIdle ==
    /\ st2 = [pc |-> "idle", idx |-> 0]
    /\ pw = [pc |-> "idle", ret |-> [kind |-> "none", val |-> "-", stderr |-> FALSE]]
    /\ cw2 = [pc |-> "idle", ret |-> [kind |-> "none", val |-> "-", stderr |-> FALSE]]
    /\ kills = 0
    /\ envBase = <<>>
    /\ envVars = <<>>
    /\ envOut = [set |-> FALSE, env |-> <<>>]

\* as XIdle, for everything but the environment
CallersIdle ==
    /\ st2 = [pc |-> "idle", idx |-> 0]
    /\ pw = [pc |-> "idle", ret |-> [kind |-> "none", val |-> "-", stderr |-> FALSE]]
    /\ cw2 = [pc |-> "idle", ret |-> [kind |-> "none", val |-> "-", stderr |-> FALSE]]
    /\ kills = 0

\* New(options...): the options decide stdin and stdout
StdinOptions == {NilH, Handle("nop", "IN", 0), Handle("nopwt", "IN", 0)}
StdoutOptions == {NilH, Handle("nop", "OUT", 0), Handle("closer", "OUT", 0)}

PInitWith(ins, outs) ==
    /\ p_stdin \in ins
    /\ p_stdout \in outs
    /\ stages = <<>>
    /\ started = FALSE
    /\ ctxDone = FALSE
    /\ pc = "config"
    /\ idx = 0
    /\ ss = <<>>
    /\ fail = NoFail
    /\ io = IoInit
    /\ rt = <<>>
    /\ finishedEarly = FALSE
    /\ earliest = NoStageErr
    /\ events = <<>>
    /\ startRet = RetNone
    /\ waitRet = RetNone
    /\ adder = AdderIdle

-----------------------------------------------------------------------------
(* Pipeline.Add, Pipeline.Start                                            *)

hasStarted == started

\* Pipeline.Add / AddWithIgnoredError called by the driving goroutine, also
\* after it has recovered from a panic of Start or Add.  (The wrapper of
\* AddWithIgnoredError only narrows what the stage's Wait returns, which is
\* arbitrary here.)
Add(s, limit) ==
    /\ pc \in {"config", "done", "panic"}
    /\ IF hasStarted
       THEN /\ pc' = "panic"
            /\ UNCHANGED <<stages, rt>>
       ELSE /\ Len(stages) < limit
            /\ stages' = Append(stages, s)
            /\ rt' = Append(rt, NewRt)
            /\ pc' = pc
    /\ UNCHANGED <<p_stdin, p_stdout, started, ctxDone, idx, ss, fail, io,
                   finishedEarly, earliest, events, startRet, waitRet, adder>>
    /\ UNCHANGED cvars
    /\ UNCHANGED <<xvars, yvars>>

\* Start, the lifecycle check; the caller may have recovered from a panic
StartCheck ==
    /\ pc \in {"config", "panic"}
    /\ pc' = IF hasStarted THEN "panic" ELSE "checked"
    /\ UNCHANGED <<p_stdin, p_stdout, stages, started, ctxDone, idx, ss, fail,
                   io, rt, finishedEarly, earliest, events, startRet, waitRet,
                   adder>>
    /\ UNCHANGED cvars
    /\ UNCHANGED <<xvars, yvars>>

StartInitPanicsBeforeStore ==
    /\ pc = "checked"
    /\ started' = (Len(stages) # 0)
    /\ ctxDone' = FALSE
    /\ IF Len(stages) = 0
       THEN /\ pc' = "panic"
            /\ UNCHANGED <<ss, idx>>
       ELSE /\ ss' = [i \in 1..Len(stages) |->
                        [stdin |-> IF i = 1 THEN p_stdin ELSE NilH,
                         stdout |-> IF i = Len(stages) THEN p_stdout ELSE NilH]]
            /\ idx' = 1
            /\ pc' = "starting"
    /\ UNCHANGED <<p_stdin, p_stdout, stages, fail, io, rt, finishedEarly,
                   earliest, events, startRet, waitRet, adder>>
    /\ UNCHANGED cvars
    /\ UNCHANGED <<xvars, yvars>>
\* Start, from the store of the started flag to the head of the loop:
\* stageStarters has one entry per stage of the list as it is now.  With an
\* empty list stageStarters[0] (p.stdin set), stageStarters[-1] (p.stdout
\* set) or the slice expression p.stages[:len(p.stages)-1] panics.
StartInit ==
    /\ pc = "checked"
    /\ started' = TRUE
    /\ ctxDone' = FALSE
    /\ IF Len(stages) = 0
       THEN /\ pc' = "panic"
            /\ UNCHANGED <<ss, idx>>
       ELSE /\ ss' = [i \in 1..Len(stages) |->
                        [stdin |-> IF i = 1 THEN p_stdin ELSE NilH,
                         stdout |-> IF i = Len(stages) THEN p_stdout ELSE NilH]]
            /\ idx' = 1
            /\ pc' = "starting"
    /\ UNCHANGED <<p_stdin, p_stdout, stages, fail, io, rt, finishedEarly,
                   earliest, events, startRet, waitRet, adder>>
    /\ UNCHANGED cvars
    /\ UNCHANGED <<xvars, yvars>>

UsesOSPipeOwnPrefs(ssPrefs, nextPrefs) ==
    \/ ssPrefs.StdinPreference = IOPreferenceFile
    \/ nextPrefs.StdoutPreference = IOPreferenceFile
\* Start: os.Pipe() or io.Pipe() between a stage and the next one
UsesOSPipe(ssPrefs, nextPrefs) ==
    \/ ssPrefs.StdoutPreference = IOPreferenceFile
    \/ nextPrefs.StdinPreference = IOPreferenceFile

PipeKind(i) ==
    IF UsesOSPipe(Preferences(stages[i]), Preferences(stages[i + 1]))
    THEN "os" ELSE "io"
PipeEnd(i, end) == Handle(IF PipeKind(i) = "os" THEN "file" ELSE "iopipe", end, i)

\* the loop runs over the stages that stageStarters was made for
IsLast(i) == i = Len(ss)
\* stdout of stage i: the writer of a new pipe, or what Start set for the last
StdoutFor(i) == IF IsLast(i) THEN ss[i].stdout ELSE PipeEnd(i, "W")
\* the table after the pipe behind stage i has been created
WithPipe(t, i) ==
    IF IsLast(i) THEN t ELSE [t EXCEPT !.pipes[i].kind = PipeKind(i)]
\* stageStarters after the pipe behind stage i has been created
SsWithPipe(i) ==
    IF IsLast(i) THEN ss
    ELSE [ss EXCEPT ![i].stdout = PipeEnd(i, "W"), ![i + 1].stdin = PipeEnd(i, "R")]

AbortClosesNothing(t, i, in) == t
\* abort(i, err), its first half: close the reader destined for stage i
AbortCloses(t, i, in) == CloseH(t, in)

\* abort(i, err): p.cancel()
AbortCancel == TRUE

\* abort(i, err) up to the loop that waits for the earlier stages
AbortBegin(t, i, err) ==
    /\ io' = AbortCloses(t, i, ss[i].stdin)
    /\ ctxDone' = AbortCancel
    /\ fail' = [at |-> i, err |-> err]
    /\ idx' = 1
    /\ pc' = "aborting"

\* Start, one iteration: os.Pipe() fails
StartPipeFail ==
    /\ pc = "starting"
    /\ ~IsLast(idx)
    /\ PipeKind(idx) = "os"
    /\ AbortBegin(io, idx, "ErrPipe")
    /\ UNCHANGED <<p_stdin, p_stdout, stages, started, ss, rt, finishedEarly,
                   earliest, events, startRet, waitRet, adder>>
    /\ UNCHANGED cvars
    /\ UNCHANGED <<xvars, yvars>>

\* commandStage.Start2 / goStage.StartWithIO returning nil
StageStarted(s, in, out) ==
    IF s.kind = "cmd"
    THEN [NewRt EXCEPT !.status = "running", !.stdin = in, !.stdout = out,
                       !.late = LateClosers(in, out)]
    ELSE [NewRt EXCEPT !.status = "running", !.stdin = in, !.stdout = out]

\* Start, one iteration in which the stage starts; after the last stage
\* Start returns nil
StartStageOk ==
    /\ pc = "starting"
    /\ Len(stages) = Len(ss)
    /\ LET i == idx
           s == stages[i]
           in == ss[i].stdin
           out == StdoutFor(i)
       IN /\ rt' = [rt EXCEPT ![i] = StageStarted(s, in, out)]
          /\ io' = IF s.kind = "cmd"
                   THEN CloseSeq(WithPipe(io, i), EarlyClosers(in, out))
                   ELSE WithPipe(io, i)
          /\ ss' = SsWithPipe(i)
          /\ IF IsLast(i)
             THEN /\ pc' = "started"
                  /\ startRet' = RetNil
                  /\ idx' = idx
             ELSE /\ pc' = pc
                  /\ idx' = i + 1
                  /\ startRet' = startRet
    /\ UNCHANGED <<p_stdin, p_stdout, stages, started, ctxDone, fail,
                   finishedEarly, earliest, events, waitRet, adder>>
    /\ UNCHANGED cvars
    /\ UNCHANGED <<xvars, yvars>>

\* Start, one iteration in which the stage (a command) fails to start: the
\* pipe made for its output is closed, then abort
StartStageFail ==
    /\ pc = "starting"
    /\ Len(stages) = Len(ss)
    /\ stages[idx].kind = "cmd"
    /\ LET i == idx
           in == ss[i].stdin
           out == StdoutFor(i)
           t == IF IsLast(i) THEN io
                ELSE CloseSeq(WithPipe(io, i), <<PipeEnd(i, "R"), PipeEnd(i, "W")>>)
       IN /\ rt' = [rt EXCEPT ![i] = [NewRt EXCEPT !.status = "failed",
                                         !.late = LateClosers(in, out)]]
          /\ ss' = SsWithPipe(i)
          /\ AbortBegin(t, i, "ErrStart")
    /\ UNCHANGED <<p_stdin, p_stdout, stages, started, finishedEarly, earliest,
                   events, startRet, waitRet, adder>>
    /\ UNCHANGED cvars
    /\ UNCHANGED <<xvars, yvars>>

\* Start, after the loop: the list has grown since stageStarters was made,
\* and stageStarters[len(p.stages)-1] is out of range
StartIndexPanic ==
    /\ pc = "starting"
    /\ IsLast(idx)
    /\ Len(stages) # Len(ss)
    /\ pc' = "panic"
    /\ UNCHANGED <<p_stdin, p_stdout, stages, started, ctxDone, idx, ss, fail,
                   io, rt, finishedEarly, earliest, events, startRet, waitRet,
                   adder>>
    /\ UNCHANGED cvars
    /\ UNCHANGED <<xvars, yvars>>

-----------------------------------------------------------------------------
(* A stage's Wait                                                          *)

\* can Wait of stage j return err now?  A function stage's Wait blocks until
\* the function has returned; a command's Wait returns what the child made
\* of it, or an error at once when the command was never started.
CanWait(j, err, results) ==
    IF stages[j].kind = "fn"
    THEN rt[j].status = "finished" /\ err = rt[j].res
    ELSE IF rt[j].status = "running" THEN err \in results
    ELSE rt[j].status \in {"new", "failed"} /\ err = ErrNotStarted

\* the stage after its Wait has returned err: a command closes its late
\* closers
RtAfterWait(j, err) ==
    [rt EXCEPT ![j].status = IF @ \in {"running", "finished"} THEN "waited" ELSE @,
               ![j].res = err,
               ![j].waits = @ + 1]
IoAfterWait(j) ==
    IF stages[j].kind = "cmd" THEN CloseSeq(io, rt[j].late) ELSE io

\* goStage: the function returns err; the stage closes stdout, then stdin,
\* then publishes the result
FnReturn(i, err) ==
    /\ i \in 1..Len(stages)
    /\ stages[i].kind = "fn"
    /\ rt[i].status = "running"
    /\ rt' = [rt EXCEPT ![i].status = "finished", ![i].res = err]
    /\ io' = CloseSeq(io, <<rt[i].stdout, rt[i].stdin>>)
    /\ UNCHANGED <<p_stdin, p_stdout, stages, started, ctxDone, pc, idx, ss,
                   fail, finishedEarly, earliest, events, startRet, waitRet,
                   adder>>
    /\ UNCHANGED cvars
    /\ UNCHANGED <<xvars, yvars>>

-----------------------------------------------------------------------------
(* abort, second half                                                      *)

AbortWaitsOneLess(j, i) == j >= i - 1
AbortWaitsOneMore(j, i) == j > i
\* abort: for _, s := range p.stages[:i] is over
AbortWaitsDone(j, i) == j >= i

AbortWait(err, results) ==
    /\ pc = "aborting"
    /\ ~AbortWaitsDone(idx, fail.at)
    /\ CanWait(idx, err, results)
    /\ rt' = RtAfterWait(idx, err)
    /\ io' = IoAfterWait(idx)
    /\ idx' = idx + 1
    /\ UNCHANGED <<p_stdin, p_stdout, stages, started, ctxDone, pc, ss, fail,
                   finishedEarly, earliest, events, startRet, waitRet, adder>>
    /\ UNCHANGED cvars
    /\ UNCHANGED <<xvars, yvars>>

StartFailedEvent(name, err) ==
    [Command |-> name, Msg |-> "failed to start pipeline stage", Err |-> err]

\* abort: the event and the error Start (and so Run) returns
AbortReturn ==
    /\ pc = "aborting"
    /\ AbortWaitsDone(idx, fail.at)
    /\ events' = Append(events, StartFailedEvent(Name(fail.at), fail.err))
    /\ startRet' = WrapStart(Name(fail.at), fail.err)
    /\ pc' = "done"
    /\ UNCHANGED <<p_stdin, p_stdout, stages, started, ctxDone, idx, ss, fail,
                   io, rt, finishedEarly, earliest, waitRet, adder>>
    /\ UNCHANGED cvars
    /\ UNCHANGED <<xvars, yvars>>

-----------------------------------------------------------------------------
(* Pipeline.Wait                                                           *)

ClassifyKeepsLater(fe, ea, s, err) ==
    CASE err = NoErr -> [fe |-> FALSE, ea |-> ea]
      [] err = FinishEarly -> [fe |-> TRUE, ea |-> ea]
      [] err \notin {NoErr, FinishEarly} /\ IsPipeError(err) ->
            IF fe THEN [fe |-> fe, ea |-> ea]
            ELSE IF ea.err # NoErr THEN [fe |-> fe, ea |-> ea]
            ELSE [fe |-> fe, ea |-> [stage |-> s, err |-> err]]
      [] OTHER -> IF ea.err # NoErr /\ ~IsPipeError(ea.err)
                  THEN [fe |-> FALSE, ea |-> ea]
                  ELSE [fe |-> FALSE, ea |-> [stage |-> s, err |-> err]]
ClassifyForgetsFinishEarly(fe, ea, s, err) ==
    CASE err = NoErr -> [fe |-> FALSE, ea |-> ea]
      [] err = FinishEarly -> [fe |-> fe, ea |-> ea]
      [] err \notin {NoErr, FinishEarly} /\ IsPipeError(err) ->
            IF fe THEN [fe |-> fe, ea |-> ea]
            ELSE IF ea.err # NoErr THEN [fe |-> fe, ea |-> ea]
            ELSE [fe |-> fe, ea |-> [stage |-> s, err |-> err]]
      [] OTHER -> [fe |-> FALSE, ea |-> [stage |-> s, err |-> err]]
ClassifyDropsPipeErrors(fe, ea, s, err) ==
    CASE err = NoErr -> [fe |-> FALSE, ea |-> ea]
      [] err = FinishEarly -> [fe |-> TRUE, ea |-> ea]
      [] err \notin {NoErr, FinishEarly} /\ IsPipeError(err) -> [fe |-> fe, ea |-> ea]
      [] OTHER -> [fe |-> FALSE, ea |-> [stage |-> s, err |-> err]]
ClassifyOneStepBack(fe, ea, s, err) ==
    CASE err = NoErr -> [fe |-> FALSE, ea |-> ea]
      [] err = FinishEarly -> [fe |-> TRUE, ea |-> ea]
      [] err \notin {NoErr, FinishEarly} /\ IsPipeError(err) ->
            IF fe THEN [fe |-> FALSE, ea |-> ea]
            ELSE IF ea.err # NoErr THEN [fe |-> fe, ea |-> ea]
            ELSE [fe |-> fe, ea |-> [stage |-> s, err |-> err]]
      [] OTHER -> [fe |-> FALSE, ea |-> [stage |-> s, err |-> err]]
ClassifyNilKeepsFlag(fe, ea, s, err) ==
    CASE err = NoErr -> [fe |-> fe, ea |-> ea]
      [] err = FinishEarly -> [fe |-> TRUE, ea |-> ea]
      [] err \notin {NoErr, FinishEarly} /\ IsPipeError(err) ->
            IF fe THEN [fe |-> fe, ea |-> ea]
            ELSE IF ea.err # NoErr THEN [fe |-> fe, ea |-> ea]
            ELSE [fe |-> fe, ea |-> [stage |-> s, err |-> err]]
      [] OTHER -> [fe |-> FALSE, ea |-> [stage |-> s, err |-> err]]
ClassifyPipeOverwrites(fe, ea, s, err) ==
    CASE err = NoErr -> [fe |-> FALSE, ea |-> ea]
      [] err = FinishEarly -> [fe |-> TRUE, ea |-> ea]
      [] err \notin {NoErr, FinishEarly} /\ IsPipeError(err) ->
            IF fe THEN [fe |-> fe, ea |-> ea]
            ELSE [fe |-> fe, ea |-> [stage |-> s, err |-> err]]
      [] OTHER -> [fe |-> FALSE, ea |-> [stage |-> s, err |-> err]]
\* the switch of Wait's loop: the locals after stage s has returned err
Classify(fe, ea, s, err) ==
    CASE err = NoErr -> [fe |-> FALSE, ea |-> ea]
      [] err = FinishEarly -> [fe |-> TRUE, ea |-> ea]
      [] err \notin {NoErr, FinishEarly} /\ IsPipeError(err) ->
            IF fe THEN [fe |-> fe, ea |-> ea]
            ELSE IF ea.err # NoErr THEN [fe |-> fe, ea |-> ea]
            ELSE [fe |-> fe, ea |-> [stage |-> s, err |-> err]]
      [] OTHER -> [fe |-> FALSE, ea |-> [stage |-> s, err |-> err]]

\* Run calls Wait once Start has returned nil: the lifecycle check and the
\* head of the loop
WaitBegin ==
    /\ pc = "started"
    /\ pc' = IF hasStarted THEN "waiting" ELSE "panic"
    /\ idx' = Len(stages)
    /\ finishedEarly' = FALSE
    /\ earliest' = NoStageErr
    /\ UNCHANGED <<p_stdin, p_stdout, stages, started, ctxDone, ss, fail, io,
                   rt, events, startRet, waitRet, adder>>
    /\ UNCHANGED cvars
    /\ UNCHANGED <<xvars, yvars>>

WaitLoopSkips(i) == IF i > 2 THEN i - 2 ELSE i - 1
\* Wait's loop: for i := len(p.stages) - 1; i >= 0; i--
WaitLoopNext(i) == i - 1

\* one iteration of Wait's loop
WaitStep(err, results) ==
    /\ pc = "waiting"
    /\ idx >= 1
    /\ CanWait(idx, err, results)
    /\ rt' = RtAfterWait(idx, err)
    /\ io' = IoAfterWait(idx)
    /\ LET c == Classify(finishedEarly, earliest, idx, err)
       IN /\ finishedEarly' = c.fe
          /\ earliest' = c.ea
    /\ idx' = WaitLoopNext(idx)
    /\ UNCHANGED <<p_stdin, p_stdout, stages, started, ctxDone, pc, ss, fail,
                   events, startRet, waitRet, adder>>
    /\ UNCHANGED cvars
    /\ UNCHANGED <<xvars, yvars>>

CommandFailedEventOfLast(name, err) ==
    [Command |-> Name(Len(stages)), Msg |-> "command failed", Err |-> err]
\* Wait: the event that reports the error it returns
CommandFailedEvent(name, err) ==
    [Command |-> name, Msg |-> "command failed", Err |-> err]

WaitLoopEndsEarly(i) == i <= 1
\* Wait's loop condition i >= 0 has become false
WaitLoopEnded(i) == i = 0

\* the end of Wait: the event, the result and the deferred p.cancel()
WaitReturn ==
    /\ pc = "waiting"
    /\ WaitLoopEnded(idx)
    /\ IF earliest.err # NoErr
       THEN /\ events' = Append(events, CommandFailedEvent(Name(earliest.stage), earliest.err))
            /\ waitRet' = WrapStage(Name(earliest.stage), earliest.err)
       ELSE /\ events' = events
            /\ waitRet' = RetNil
    /\ ctxDone' = TRUE
    /\ pc' = "done"
    /\ UNCHANGED <<p_stdin, p_stdout, stages, started, idx, ss, fail, io, rt,
                   finishedEarly, earliest, startRet, adder>>
    /\ UNCHANGED cvars
    /\ UNCHANGED <<xvars, yvars>>

\* what Run returned
runRet == IF startRet.kind = "start" THEN startRet ELSE waitRet
RunReturned == pc = "done"

-----------------------------------------------------------------------------
(* A second goroutine that calls Add / AddWithIgnoredError                  *)

AddCheckBlind(s) ==
    /\ adder.pc = "idle"
    /\ Len(stages) < MaxStages
    /\ adder' = [pc |-> "checked", arg |-> s]
    /\ UNCHANGED <<p_stdin, p_stdout, stages, started, ctxDone, pc, idx, ss,
                   fail, io, rt, finishedEarly, earliest, events, startRet,
                   waitRet>>
    /\ UNCHANGED cvars
    /\ UNCHANGED <<xvars, yvars>>
\* Add: if p.hasStarted() { panic(...) }
AddCheck(s) ==
    /\ adder.pc = "idle"
    /\ IF hasStarted
       THEN adder' = [pc |-> "panic", arg |-> s]
       ELSE /\ Len(stages) < MaxStages
            /\ adder' = [pc |-> "checked", arg |-> s]
    /\ UNCHANGED <<p_stdin, p_stdout, stages, started, ctxDone, pc, idx, ss,
                   fail, io, rt, finishedEarly, earliest, events, startRet,
                   waitRet>>
    /\ UNCHANGED cvars
    /\ UNCHANGED <<xvars, yvars>>

\* Add: p.stages = append(p.stages, stages...)
AddAppend ==
    /\ adder.pc = "checked"
    /\ stages' = Append(stages, adder.arg)
    /\ rt' = Append(rt, NewRt)
    /\ adder' = AdderIdle
    /\ UNCHANGED <<p_stdin, p_stdout, started, ctxDone, pc, idx, ss, fail, io,
                   finishedEarly, earliest, events, startRet, waitRet>>
    /\ UNCHANGED cvars
    /\ UNCHANGED <<xvars, yvars>>

-----------------------------------------------------------------------------
(* One command stage: commandStage.Start2, its watchdog, Kill, Wait         *)

\* samples the limit watcher takes at most
MaxSamples == 3
\* byteLimit, the ceiling given to MemoryLimit
ByteLimit == 2
\* what GetRSSAnon may report: less than the ceiling, the ceiling, more
RssValues == (ByteLimit - 1)..(ByteLimit + 1)
\* the last sample of a watcher: none or a failed one, or the bytes read
NoSample == [ok |-> FALSE, rss |-> 0]
Sample(rss) == [ok |-> TRUE, rss |-> rss]

CtxCanceled == "context.Canceled"
CtxDeadlineExceeded == "context.DeadlineExceeded"
ErrMemoryLimitExceeded == "ErrMemoryLimitExceeded"

\* error values of the stage: Go's nil, an *exec.ExitError (with the exit
\* status, and whether the captured stderr has been attached) or another error
NoneE == [kind |-> "none", val |-> "-", stderr |-> FALSE]
NilE == [kind |-> "nil", val |-> "-", stderr |-> FALSE]
ExitError(how) == [kind |-> "exit", val |-> how, stderr |-> FALSE]
ErrorE(name) == [kind |-> "err", val |-> name, stderr |-> FALSE]

\* the dynamic type of an error value kept in an atomic.Value
TypeOf(err) ==
    IF err = CtxDeadlineExceeded THEN "context.deadlineExceededError"
    ELSE "*errors.errorString"

\* who may call Kill: the watchdog, the limit watcher, a caller outside
\* ("lw" is the watcher goroutine of memoryWatchStage, also when it is
\* logMaxRSS, which never calls Kill)
Killers == {"wd", "lw", "ext"}
KillerIdle == [pc |-> "none", err |-> "-"]

CmdHandleKinds == {"nil", "nop", "file", "iopipe"}

CIdle ==
    /\ cctx = "live"
    /\ spw = "new"
    /\ cstd = [in |-> "nil", out |-> "nil", inC |-> 0, outC |-> 0]
    /\ proc = "none"
    /\ exit = [how |-> "none", by |-> "none", ctx |-> "live"]
    /\ ctxErr = "none"
    /\ done = FALSE
    /\ drain = [pc |-> "none", err |-> NilE]
    /\ kl = [g \in Killers |-> KillerIdle]
    /\ cw = [pc |-> "idle", err |-> NilE, wgErr |-> NilE, cause |-> "none",
             raw |-> NoneE, failed |-> {}]
    /\ cret = NoneE
    /\ crashed = FALSE
    /\ lw = [consec |-> 0, n |-> 0, last |-> NoSample]
    /\ cevents = <<>>
    /\ mw = [watch |-> "none", cancelled |-> FALSE, pc |-> "idle", ret |-> NoneE]

\* the caller's context is cancelled or its deadline passes
CtxCancel(e) ==
    /\ ~crashed
    /\ cctx = "live"
    /\ cctx' = e
    /\ UNCHANGED <<spw, cstd, proc, exit, ctxErr, done, drain, kl, cw, cret,
                   crashed, lw, cevents, mw>>
    /\ UNCHANGED pvars
    /\ UNCHANGED <<xvars, yvars>>

KindOf(k) == [kind |-> k, end |-> "-", pipe |-> 0]
\* the closes the loop over earlyClosers makes on a handle
EarlyCount(regime) == IF regime = "early" THEN 1 ELSE 0

\* Start2 returning nil: the child runs, the early closers are closed, the
\* stderr copier (if cmd.Stderr was nil) and the watchdog are started
Start2Ok(in, out, copier, watchers) ==
    /\ ~crashed
    /\ spw = "new"
    /\ spw' = "started"
    /\ cstd' = [in |-> in, out |-> out,
                inC |-> EarlyCount(StdinRegime(KindOf(in))),
                outC |-> EarlyCount(StdoutRegime(KindOf(out)))]
    /\ proc' = "running"
    /\ drain' = [pc |-> IF copier THEN "running" ELSE "none", err |-> NilE]
    /\ kl' = [g \in Killers |->
                IF g \in watchers THEN [pc |-> "select", err |-> "-"] ELSE kl[g]]

\* a bare command stage is started
CmdStart(in, out, copier) ==
    /\ Start2Ok(in, out, copier, {"wd"})
    /\ UNCHANGED <<cctx, exit, ctxErr, done, cw, cret, crashed, lw, cevents, mw>>
    /\ UNCHANGED pvars
    /\ UNCHANGED <<xvars, yvars>>

\* Start2 returning an error (StderrPipe or cmd.Start failed): nothing is
\* closed, cmd.Process stays nil, no goroutine is left
Start2Fail(in, out) ==
    /\ ~crashed
    /\ spw = "new"
    /\ spw' = "failed"
    /\ cstd' = [in |-> in, out |-> out, inC |-> 0, outC |-> 0]
    /\ UNCHANGED <<cctx, proc, exit, ctxErr, done, drain, kl, cw, cret,
                   crashed, lw, cevents, mw>>
    /\ UNCHANGED pvars
    /\ UNCHANGED <<xvars, yvars>>

ExitKinds == {"ok", "code", "SIGTERM", "SIGKILL", "SIGINT"}

\* the child ends by itself or by a signal some other process sent
ChildExit(how) ==
    /\ ~crashed
    /\ proc = "running"
    /\ proc' = "exited"
    /\ exit' = [how |-> how, by |-> "own", ctx |-> cctx]
    /\ UNCHANGED <<cctx, spw, cstd, ctxErr, done, drain, kl, cw, cret,
                   crashed, lw, cevents, mw>>
    /\ UNCHANGED pvars
    /\ UNCHANGED <<xvars, yvars>>

\* the stderr copier: io.Copy returns at EOF, once the child has gone, or
\* with a read error
DrainFinish(e) ==
    /\ ~crashed
    /\ drain.pc = "running"
    /\ e = NilE => proc \in {"exited", "reaped"}
    /\ drain' = [pc |-> "finished", err |-> e]
    /\ UNCHANGED <<cctx, spw, cstd, proc, exit, ctxErr, done, kl, cw, cret,
                   crashed, lw, cevents, mw>>
    /\ UNCHANGED pvars
    /\ UNCHANGED <<xvars, yvars>>

WatchdogCtxDoneNoKill ==
    /\ ~crashed
    /\ kl["wd"].pc = "select"
    /\ cctx # "live"
    /\ kl' = [kl EXCEPT !["wd"].pc = "exit"]
    /\ UNCHANGED <<cctx, spw, cstd, proc, exit, ctxErr, done, drain, cw, cret,
                   crashed, lw, cevents, mw>>
    /\ UNCHANGED pvars
    /\ UNCHANGED <<xvars, yvars>>
\* the watchdog: case <-ctx.Done(): s.Kill(ctx.Err())
WatchdogCtxDone ==
    /\ ~crashed
    /\ kl["wd"].pc = "select"
    /\ cctx # "live"
    /\ kl' = [kl EXCEPT !["wd"] = [pc |-> "kill", err |-> cctx]]
    /\ UNCHANGED <<cctx, spw, cstd, proc, exit, ctxErr, done, drain, cw, cret,
                   crashed, lw, cevents, mw>>
    /\ UNCHANGED pvars
    /\ UNCHANGED <<xvars, yvars>>

\* the watchdog: case <-s.done
WatchdogStageDone ==
    /\ ~crashed
    /\ kl["wd"].pc = "select"
    /\ done
    /\ kl' = [kl EXCEPT !["wd"].pc = "exit"]
    /\ UNCHANGED <<cctx, spw, cstd, proc, exit, ctxErr, done, drain, cw, cret,
                   crashed, lw, cevents, mw>>
    /\ UNCHANGED pvars
    /\ UNCHANGED <<xvars, yvars>>

KillCheckNoNilGuard(g) ==
    /\ ~crashed
    /\ kl[g].pc = "kill"
    /\ kl' = [kl EXCEPT ![g].pc = IF done THEN "exit" ELSE "checked"]
    /\ UNCHANGED <<cctx, spw, cstd, proc, exit, ctxErr, done, drain, cw, cret,
                   crashed, lw, cevents, mw>>
    /\ UNCHANGED pvars
    /\ UNCHANGED <<xvars, yvars>>
\* Kill: return if cmd.Process is nil or s.done is closed
KillCheck(g) ==
    /\ ~crashed
    /\ kl[g].pc = "kill"
    /\ kl' = [kl EXCEPT ![g].pc = IF proc = "none" \/ done THEN "exit" ELSE "checked"]
    /\ UNCHANGED <<cctx, spw, cstd, proc, exit, ctxErr, done, drain, cw, cret,
                   crashed, lw, cevents, mw>>
    /\ UNCHANGED pvars
    /\ UNCHANGED <<xvars, yvars>>

\* Kill: s.ctxErr.Store(err); atomic.Value panics on a value whose type
\* differs from the type of the value stored before
KillStore(g) ==
    /\ ~crashed
    /\ kl[g].pc = "checked"
    /\ IF ctxErr # "none" /\ TypeOf(ctxErr) # TypeOf(kl[g].err)
       THEN /\ crashed' = TRUE
            /\ UNCHANGED <<ctxErr, kl>>
       ELSE /\ ctxErr' = kl[g].err
            /\ kl' = [kl EXCEPT ![g].pc = "stored"]
            /\ crashed' = crashed
    /\ UNCHANGED <<cctx, spw, cstd, proc, exit, done, drain, cw, cret, lw,
                   cevents, mw>>
    /\ UNCHANGED pvars
    /\ UNCHANGED <<xvars, yvars>>

\* how a child ends when os.Process.Kill reaches it: by SIGKILL, or, where
\* the platform has no signals, with an exit status that is not a signal
ProcessKillOutcomes == {"SIGKILL", "code"}

\* Kill: s.cmd.Process.Kill()
KillSignal(g, how) ==
    /\ ~crashed
    /\ kl[g].pc = "stored"
    /\ kl' = [kl EXCEPT ![g].pc = "exit"]
    /\ IF proc = "running"
       THEN /\ proc' = "exited"
            /\ exit' = [how |-> how, by |-> g, ctx |-> cctx]
       ELSE UNCHANGED <<proc, exit>>
    /\ UNCHANGED <<cctx, spw, cstd, ctxErr, done, drain, cw, cret, crashed,
                   lw, cevents, mw>>
    /\ UNCHANGED pvars
    /\ UNCHANGED <<xvars, yvars>>

WaitJoinSkipsDrain ==
    /\ ~crashed
    /\ spw = "started"
    /\ cw.pc = "idle"
    /\ cw' = [cw EXCEPT !.pc = "joined", !.wgErr = drain.err]
    /\ UNCHANGED <<cctx, spw, cstd, proc, exit, ctxErr, done, drain, kl, cret,
                   crashed, lw, cevents, mw>>
    /\ UNCHANGED pvars
    /\ UNCHANGED <<xvars, yvars>>
\* Wait: wgErr := s.wg.Wait()
WaitJoin ==
    /\ ~crashed
    /\ spw = "started"
    /\ cw.pc = "idle"
    /\ drain.pc # "running"
    /\ cw' = [cw EXCEPT !.pc = "joined", !.wgErr = drain.err]
    /\ UNCHANGED <<cctx, spw, cstd, proc, exit, ctxErr, done, drain, kl, cret,
                   crashed, lw, cevents, mw>>
    /\ UNCHANGED pvars
    /\ UNCHANGED <<xvars, yvars>>

\* what cmd.Wait() may return for a child that ended this way
CmdWaitErrors(how) ==
    IF how = "ok" THEN {NilE, ErrorE("ErrIO")} ELSE {ExitError(how)}

\* Wait: err := s.cmd.Wait()
WaitReap(e) ==
    /\ ~crashed
    /\ cw.pc = "joined"
    /\ proc = "exited"
    /\ e \in CmdWaitErrors(exit.how)
    /\ proc' = "reaped"
    /\ cw' = [cw EXCEPT !.pc = "reaped", !.err = e, !.raw = e]
    /\ UNCHANGED <<cctx, spw, cstd, exit, ctxErr, done, drain, kl, cret,
                   crashed, lw, cevents, mw>>
    /\ UNCHANGED pvars
    /\ UNCHANGED <<xvars, yvars>>

FilterAlwaysSubstitutes(err, cause) ==
    IF err.kind # "exit" THEN err
    ELSE IF cause # "none" THEN ErrorE(cause)
    ELSE [err EXCEPT !.stderr = TRUE]
\* filterCmdError, with the value s.ctxErr.Load() gives
filterCmdError(err, cause) ==
    IF err.kind = "nil" THEN err
    ELSE IF err.kind # "exit" THEN err
    ELSE IF cause # "none" /\ err.val \in {"SIGTERM", "SIGKILL"} THEN ErrorE(cause)
    ELSE [err EXCEPT !.stderr = TRUE]

\* Wait: err = s.filterCmdError(err); if err == nil && wgErr != nil { err = wgErr }
WaitFilter ==
    /\ ~crashed
    /\ cw.pc = "reaped"
    /\ LET f == filterCmdError(cw.err, ctxErr)
       IN cw' = [cw EXCEPT !.pc = "filtered",
                           !.cause = ctxErr,
                           !.err = IF f = NilE /\ cw.wgErr # NilE THEN cw.wgErr ELSE f]
    /\ UNCHANGED <<cctx, spw, cstd, proc, exit, ctxErr, done, drain, kl, cret,
                   crashed, lw, cevents, mw>>
    /\ UNCHANGED pvars
    /\ UNCHANGED <<xvars, yvars>>

LateCloseErrorWins(err, inFails, outFails) ==
    IF inFails THEN ErrorE("ErrCloseStdin")
    ELSE IF outFails THEN ErrorE("ErrCloseStdout")
    ELSE err
\* Wait: if closeErr := closer.Close(); closeErr != nil && err == nil; stdin
\* is appended to s.lateClosers before stdout
LateCloseError(err, inFails, outFails) ==
    IF err # NilE THEN err
    ELSE IF inFails THEN ErrorE("ErrCloseStdin")
    ELSE IF outFails THEN ErrorE("ErrCloseStdout")
    ELSE NilE

\* Wait: the loop over s.lateClosers; inFails / outFails say whether the
\* Close of stdin / stdout returns an error (cw.failed remembers which did)
WaitLate(inFails, outFails) ==
    /\ ~crashed
    /\ cw.pc = "filtered"
    /\ LET lin == StdinRegime(KindOf(cstd.in)) = "late"
           lout == StdoutRegime(KindOf(cstd.out)) = "late"
       IN /\ inFails => lin
          /\ outFails => lout
          /\ cstd' = [cstd EXCEPT !.inC = @ + (IF lin THEN 1 ELSE 0),
                                  !.outC = @ + (IF lout THEN 1 ELSE 0)]
          /\ cw' = [cw EXCEPT !.pc = "closed",
                              !.failed = (IF inFails THEN {"in"} ELSE {})
                                         \cup (IF outFails THEN {"out"} ELSE {}),
                              !.err = LateCloseError(cw.err, inFails, outFails)]
    /\ UNCHANGED <<cctx, spw, proc, exit, ctxErr, done, drain, kl, cret,
                   crashed, lw, cevents, mw>>
    /\ UNCHANGED pvars
    /\ UNCHANGED <<xvars, yvars>>

\* Wait: return err, and the deferred close(s.done)
WaitDone ==
    /\ ~crashed
    /\ cw.pc = "closed"
    /\ done' = TRUE
    /\ cret' = cw.err
    /\ cw' = [cw EXCEPT !.pc = "returned"]
    /\ UNCHANGED <<cctx, spw, cstd, proc, exit, ctxErr, drain, kl, crashed,
                   lw, cevents, mw>>
    /\ UNCHANGED pvars
    /\ UNCHANGED <<xvars, yvars>>

-----------------------------------------------------------------------------
(* MemoryLimit: memoryWatchStage and killAtLimit                           *)

\* memoryWatchStage.Start: the stage is started, then the watcher, under a
\* context derived from the stage's
MemWatchStart(in, out, copier) ==
    /\ Start2Ok(in, out, copier, {"wd", "lw"})
    /\ UNCHANGED <<cctx, exit, ctxErr, done, cw, cret, crashed, cevents>>
    /\ lw' = [consec |-> 0, n |-> 0, last |-> NoSample]
    /\ mw' = [watch |-> "killAtLimit", cancelled |-> FALSE, pc |-> "idle",
              ret |-> NoneE]
    /\ UNCHANGED pvars
    /\ UNCHANGED <<xvars, yvars>>

\* killAtLimit: case <-ctx.Done(): return
LimitCtxDone ==
    /\ ~crashed
    /\ mw.watch = "killAtLimit"
    /\ kl["lw"].pc = "select"
    /\ cctx # "live" \/ mw.cancelled
    /\ kl' = [kl EXCEPT !["lw"].pc = "exit"]
    /\ UNCHANGED <<cctx, spw, cstd, proc, exit, ctxErr, done, drain, cw, cret,
                   crashed, lw, cevents, mw>>
    /\ UNCHANGED pvars
    /\ UNCHANGED <<xvars, yvars>>

RSSErrorEvent == [Msg |-> "error getting RSS"]
\* Context: map[string]interface{}{"limit": byteLimit, "used": rss}
MemoryExceededEvent(limit, rss) ==
    [Msg |-> "stage exceeded allowed memory use", limit |-> limit, used |-> rss]

\* killAtLimit: case <-t.C, GetRSSAnon returns an error
LimitSampleError ==
    /\ ~crashed
    /\ mw.watch = "killAtLimit"
    /\ kl["lw"].pc = "select"
    /\ lw.n < MaxSamples
    /\ lw' = [consec |-> lw.consec + 1, n |-> lw.n + 1, last |-> NoSample]
    /\ cevents' = IF lw.consec + 1 >= 2 THEN Append(cevents, RSSErrorEvent)
                  ELSE cevents
    /\ UNCHANGED <<cctx, spw, cstd, proc, exit, ctxErr, done, drain, kl, cw,
                   cret, crashed, mw>>
    /\ UNCHANGED pvars
    /\ UNCHANGED <<xvars, yvars>>

BelowOrAtLimit(rss, byteLimit) == rss <= byteLimit
\* killAtLimit: if rss < byteLimit { continue }
BelowLimit(rss, byteLimit) == rss < byteLimit

\* killAtLimit: case <-t.C, the sample is below the limit
LimitSampleBelow(rss) ==
    /\ ~crashed
    /\ mw.watch = "killAtLimit"
    /\ kl["lw"].pc = "select"
    /\ lw.n < MaxSamples
    /\ BelowLimit(rss, ByteLimit)
    /\ lw' = [consec |-> 0, n |-> lw.n + 1, last |-> Sample(rss)]
    /\ UNCHANGED <<cctx, spw, cstd, proc, exit, ctxErr, done, drain, kl, cw,
                   cret, crashed, cevents, mw>>
    /\ UNCHANGED pvars
    /\ UNCHANGED <<xvars, yvars>>

\* killAtLimit: case <-t.C, the sample has reached the limit: the event,
\* then stage.Kill(ErrMemoryLimitExceeded)
LimitSampleBreach(rss) ==
    /\ ~crashed
    /\ mw.watch = "killAtLimit"
    /\ kl["lw"].pc = "select"
    /\ lw.n < MaxSamples
    /\ ~BelowLimit(rss, ByteLimit)
    /\ lw' = [consec |-> 0, n |-> lw.n + 1, last |-> Sample(rss)]
    /\ cevents' = Append(cevents, MemoryExceededEvent(ByteLimit, rss))
    /\ kl' = [kl EXCEPT !["lw"] = [pc |-> "kill", err |-> ErrMemoryLimitExceeded]]
    /\ UNCHANGED <<cctx, spw, cstd, proc, exit, ctxErr, done, drain, cw, cret,
                   crashed, mw>>
    /\ UNCHANGED pvars
    /\ UNCHANGED <<xvars, yvars>>

\* memoryWatchStage.Wait, once the stage's Wait has returned: an error is
\* returned at once, otherwise the watcher's context is cancelled
MemWatchWait ==
    /\ ~crashed
    /\ kl["lw"].pc # "none"
    /\ cw.pc = "returned"
    /\ mw.pc = "idle"
    /\ mw' = IF cret # NilE
             THEN [mw EXCEPT !.pc = "returned", !.ret = cret]
             ELSE [mw EXCEPT !.pc = "stopping", !.cancelled = TRUE]
    /\ UNCHANGED <<cctx, spw, cstd, proc, exit, ctxErr, done, drain, kl, cw,
                   cret, crashed, lw, cevents>>
    /\ UNCHANGED pvars
    /\ UNCHANGED <<xvars, yvars>>

\* memoryWatchStage.stopWatching: m.wg.Wait() returns, Wait returns nil
MemWatchStopped ==
    /\ ~crashed
    /\ mw.pc = "stopping"
    /\ kl["lw"].pc = "exit"
    /\ mw' = [mw EXCEPT !.pc = "returned", !.ret = NilE]
    /\ UNCHANGED <<cctx, spw, cstd, proc, exit, ctxErr, done, drain, kl, cw,
                   cret, crashed, lw, cevents>>
    /\ UNCHANGED pvars
    /\ UNCHANGED <<xvars, yvars>>

-----------------------------------------------------------------------------
(* A second goroutine that calls Pipeline.Start                            *)

\* Start in the second goroutine: if p.hasStarted() { panic(...) }
SecondStartCheck ==
    /\ st2.pc = "idle"
    /\ st2' = [st2 EXCEPT !.pc = IF hasStarted THEN "panic" ELSE "checked"]
    /\ UNCHANGED <<pw, cw2, kills, envBase, envVars, envOut>>
    /\ UNCHANGED yvars
    /\ UNCHANGED pvars
    /\ UNCHANGED cvars

\* Start in the second goroutine: atomic.StoreUint32(&p.started, 1), the
\* context and its own stageStarters; with an empty list the slice
\* expression panics.  It now stands at the head of the loop that starts the
\* stages, and is followed no further.
SecondStartInit ==
    /\ st2.pc = "checked"
    /\ started' = TRUE
    /\ st2' = IF Len(stages) = 0 THEN [pc |-> "panic", idx |-> 0]
              ELSE [pc |-> "starting", idx |-> 1]
    /\ UNCHANGED <<p_stdin, p_stdout, stages, ctxDone, pc, idx, ss, fail, io,
                   rt, finishedEarly, earliest, events, startRet, waitRet,
                   adder>>
    /\ UNCHANGED <<pw, cw2, kills, envBase, envVars, envOut>>
    /\ UNCHANGED yvars
    /\ UNCHANGED cvars

-----------------------------------------------------------------------------
(* Pipeline.Wait over a pipeline whose one stage is the command stage      *)

DeferredCancelMissing(c) == c
\* defer p.cancel(): the context derived in Start is done from now on, with
\* the error it had if it was done already
DeferredCancel(c) == IF c = "live" THEN CtxCanceled ELSE c

\* Pipeline.Wait, once the Wait of its stage has returned: it returns the
\* stage's error, and the deferred p.cancel() runs
PipelineWaitExit ==
    /\ ~crashed
    /\ pw.pc = "idle"
    /\ mw.pc = "returned"
    /\ pw' = [pc |-> "returned", ret |-> mw.ret]
    /\ cctx' = DeferredCancel(cctx)
    /\ UNCHANGED <<spw, cstd, proc, exit, ctxErr, done, drain, kl, cw, cret,
                   crashed, lw, cevents, mw>>
    /\ UNCHANGED <<st2, cw2, kills, envBase, envVars, envOut>>
    /\ UNCHANGED yvars
    /\ UNCHANGED pvars

\* the caller's context is cancelled while the stage is spawned and its Wait
\* has not completed
CtxCancelWhileRunning(e) ==
    /\ spw = "started"
    /\ ~done
    /\ CtxCancel(e)

-----------------------------------------------------------------------------
(* The environment of a command: setupEnv, copyEnvWithOverrides.  A string *)
(* is a sequence of characters.                                            *)

\* most entries in cmd.Env, most producers in Env.Vars
MaxEnv == 2
MaxProducers == 2

\* entries of the base environment: plain ones, one without "=", one with
\* two "=", one with an empty key
EnvEntries ==
    {<<"A", "=", "1">>, <<"A", "=", "2">>, <<"B", "=", "1">>, <<"A">>,
     <<"A", "=", "1", "=", "2">>, <<"=", "A">>}
EnvKeys == {<<"A">>, <<"B">>}
EnvValues == {<<"1">>, <<"2", "=", "3">>, <<>>}
EnvVar == [Key : EnvKeys, Value : EnvValues]
\* what one producer appends: nothing (WithEnvVarFunc without a value) or
\* one variable (WithEnvVar)
Producers == {<<>>} \cup {<<v>> : v \in EnvVar}

SeqsUpTo(S, n) == UNION {[1..k -> S] : k \in 0..n}

\* strings.Index(v, "="), counted from 1; 0 when there is none
IndexEq(v) ==
    LET at == {i \in 1..Len(v) : v[i] = "="}
    IN IF at = {} THEN 0 ELSE CHOOSE i \in at : \A j \in at : i <= j
\* v[:eq]
KeyOf(v) == SubSeq(v, 1, IndexEq(v) - 1)

\* for _, fn := range env.Vars { vars = fn(ctx, vars) }
RECURSIVE RunProducers(_)
RunProducers(fns) ==
    IF fns = <<>> THEN <<>>
    ELSE RunProducers(SubSeq(fns, 1, Len(fns) - 1)) \o fns[Len(fns)]

VarMapFirstWins(vs) ==
    [k \in {vs[i].Key : i \in 1..Len(vs)} |->
        LET at == {i \in 1..Len(vs) : vs[i].Key = k}
        IN vs[CHOOSE i \in at : \A j \in at : i <= j].Value]
\* for _, v := range vars { varMap[v.Key] = v.Value }
VarMap(vs) ==
    [k \in {vs[i].Key : i \in 1..Len(vs)} |->
        LET at == {i \in 1..Len(vs) : vs[i].Key = k}
        IN vs[CHOOSE i \in at : \A j \in at : i >= j].Value]

\* fmt.Sprintf("%s=%s", key, value)
Sprintf(key, value) == key \o <<"=">> \o value

\* the orders in which a range over the map may visit its keys
RECURSIVE KeyOrders(_)
KeyOrders(K) ==
    IF K = {} THEN {<<>>}
    ELSE UNION {{<<k>> \o o : o \in KeyOrders(K \ {k})} : k \in K}

\* copyEnvWithOverrides, with the order in which the map is ranged over
copyEnvWithOverrides(myEnv, overrides, order) ==
    LET keeps(v) == IndexEq(v) = 0 \/ KeyOf(v) \notin DOMAIN overrides
    IN SelectSeq(myEnv, keeps) \o
       [i \in 1..Len(order) |-> Sprintf(order[i], overrides[order[i]])]

\* setupEnv: nothing is done without producers; otherwise the overrides are
\* collected and cmd.Env is replaced
setupEnv(order) ==
    /\ ~envOut.set
    /\ LET varMap == VarMap(RunProducers(envVars))
       IN /\ order \in KeyOrders(DOMAIN varMap)
          /\ envOut' = [set |-> TRUE,
                        env |-> IF Len(envVars) = 0 THEN envBase
                                ELSE copyEnvWithOverrides(envBase, varMap, order)]
    /\ UNCHANGED <<st2, pw, cw2, kills, envBase, envVars>>
    /\ UNCHANGED yvars
    /\ UNCHANGED pvars
    /\ UNCHANGED cvars

-----------------------------------------------------------------------------
(* Kill called from outside the stage                                      *)

\* calls of Kill a caller outside the stage makes at most
MaxKills == 2

ExternalErrors == {ErrMemoryLimitExceeded, "ErrKill"}

\* a caller outside the stage calls Kill(e); the call before it has returned
ExternalKill(e) ==
    /\ ~crashed
    /\ kl["ext"].pc \in {"none", "exit"}
    /\ kills < MaxKills
    /\ kills' = kills + 1
    /\ kl' = [kl EXCEPT !["ext"] = [pc |-> "kill", err |-> e]]
    /\ UNCHANGED <<cctx, spw, cstd, proc, exit, ctxErr, done, drain, cw, cret,
                   crashed, lw, cevents, mw>>
    /\ UNCHANGED <<st2, pw, cw2, envBase, envVars, envOut>>
    /\ UNCHANGED yvars
    /\ UNCHANGED pvars

-----------------------------------------------------------------------------
(* commandStage.Wait called a second time                                  *)

\* a second call of Wait, made after the first has returned: s.wg.Wait()
\* returns at once, s.cmd.Wait() returns the error "Wait was already
\* called", which filterCmdError passes on, the late closers are closed
\* again, and the deferred close(s.done) panics, s.done being closed already
SecondWait ==
    /\ ~crashed
    /\ cw.pc = "returned"
    /\ cw2.pc = "idle"
    /\ cstd' = [cstd EXCEPT
                  !.inC = @ + (IF StdinRegime(KindOf(cstd.in)) = "late" THEN 1 ELSE 0),
                  !.outC = @ + (IF StdoutRegime(KindOf(cstd.out)) = "late" THEN 1 ELSE 0)]
    /\ cw2' = [pc |-> "panicked", ret |-> NoneE]
    /\ crashed' = TRUE
    /\ UNCHANGED <<cctx, spw, proc, exit, ctxErr, done, drain, kl, cw, cret,
                   lw, cevents, mw>>
    /\ UNCHANGED <<st2, pw, kills, envBase, envVars, envOut>>
    /\ UNCHANGED yvars
    /\ UNCHANGED pvars

-----------------------------------------------------------------------------
(* A function stage on its own: goStage.StartWithIO, the goroutine it      *)
(* starts, and goStage.Wait.                                               *)

\* values of s.err and of Wait: not set, nil, the function's error, or
\* fmt.Errorf("error closing stdout / stdin for stage %q: %w", ...)
NoneG == [kind |-> "none", what |-> "-", err |-> NoErr]
NilG == [kind |-> "nil", what |-> "-", err |-> NoErr]
FuncErr(e) == IF e = NoErr THEN NilG ELSE [kind |-> "f", what |-> "-", err |-> e]
ClosingErr(what, e) == [kind |-> "closing", what |-> what, err |-> e]

\* what the user function may return, and what Close() may return
FuncResults == {NoErr, FinishEarly, "E1"}
CloseErrors == {NoErr, "ErrClosed"}
GoHandleKinds == {"nil", "nop", "file", "iopipe"}
CloseResults(kind) == IF ClosesUnderlying(kind) THEN CloseErrors ELSE {NoErr}

GsIdle == [pc |-> "new", in |-> "nil", out |-> "nil", err |-> NoneG,
           done |-> FALSE, log |-> <<>>, ret |-> NoneG]
\* p.stdin / p.stdout as an option leaves it: nil, or the reader / writer
\* `of` in a wrapper (or as it is)
NilO == [kind |-> "nil", of |-> "-"]
\* logMaxRSS: var maxRSS uint64; samples, errors, consecutiveErrors int
ObIdle == [maxRSS |-> 0, samples |-> 0, errors |-> 0, consecutiveErrors |-> 0,
           log |-> <<>>]
\* p := &Pipeline{eventHandler: emptyEventHandler}
NewPipeline == [Dir |-> "", stdin |-> NilO, stdout |-> NilO,
                eventHandler |-> "emptyEventHandler", Vars |-> <<>>]
NoPipeline == [Dir |-> "-", stdin |-> NilO, stdout |-> NilO,
               eventHandler |-> "-", Vars |-> <<>>]
NwIdle == [options |-> <<>>, p |-> NoPipeline]
\* goStage.StartWithIO: the goroutine is started
GoStartWithIO(in, out) ==
    /\ gs.pc = "new"
    /\ gs' = [gs EXCEPT !.pc = "f", !.in = in, !.out = out]
    /\ UNCHANGED <<pvars, cvars, xvars, ob, nw, zvars>>

\* s.err = s.f(ctx, env, r, w)
GoFuncReturns(e) ==
    /\ gs.pc = "f"
    /\ gs' = [gs EXCEPT !.pc = "closeStdout", !.err = FuncErr(e),
                        !.log = Append(@, [what |-> "f", err |-> e])]
    /\ UNCHANGED <<pvars, cvars, xvars, ob, nw, zvars>>

KeepsLastError(cur, what, e) ==
    IF e # NoErr THEN ClosingErr(what, e) ELSE cur
\* if err := c.Close(); err != nil && s.err == nil { s.err = fmt.Errorf(...) }
KeepsFirstError(cur, what, e) ==
    IF e # NoErr /\ cur = NilG THEN ClosingErr(what, e) ELSE cur

\* if stdout != nil { stdout.Close() ... }
GoCloseStdout(e) ==
    /\ gs.pc = "closeStdout"
    /\ IF gs.out = "nil"
       THEN /\ e = NoErr
            /\ gs' = [gs EXCEPT !.pc = "closeStdin"]
       ELSE /\ e \in CloseResults(gs.out)
            /\ gs' = [gs EXCEPT !.pc = "closeStdin",
                                !.err = KeepsFirstError(@, "stdout", e),
                                !.log = Append(@, [what |-> "W", err |-> e])]
    /\ UNCHANGED <<pvars, cvars, xvars, ob, nw, zvars>>

\* if stdin != nil { stdin.Close() ... }
GoCloseStdin(e) ==
    /\ gs.pc = "closeStdin"
    /\ IF gs.in = "nil"
       THEN /\ e = NoErr
            /\ gs' = [gs EXCEPT !.pc = "closeDone"]
       ELSE /\ e \in CloseResults(gs.in)
            /\ gs' = [gs EXCEPT !.pc = "closeDone",
                                !.err = KeepsFirstError(@, "stdin", e),
                                !.log = Append(@, [what |-> "R", err |-> e])]
    /\ UNCHANGED <<pvars, cvars, xvars, ob, nw, zvars>>

\* close(s.done), the goroutine ends
GoCloseDone ==
    /\ gs.pc = "closeDone"
    /\ gs' = [gs EXCEPT !.pc = "end", !.done = TRUE]
    /\ UNCHANGED <<pvars, cvars, xvars, ob, nw, zvars>>

\* goStage.Wait: <-s.done; return s.err
GoWait ==
    /\ gs.done
    /\ gs.ret = NoneG
    /\ gs' = [gs EXCEPT !.ret = gs.err]
    /\ UNCHANGED <<pvars, cvars, xvars, ob, nw, zvars>>

-----------------------------------------------------------------------------
(* MemoryObserver: memoryWatchStage with logMaxRSS as its watcher          *)

\* memoryWatchStage.Start of an observed stage
MemObserveStart(in, out, copier) ==
    /\ Start2Ok(in, out, copier, {"wd", "lw"})
    /\ UNCHANGED <<cctx, exit, ctxErr, done, cw, cret, crashed, cevents, lw>>
    /\ mw' = [watch |-> "logMaxRSS", cancelled |-> FALSE, pc |-> "idle",
              ret |-> NoneE]
    /\ ob' = ObIdle
    /\ UNCHANGED <<pvars, xvars, gs, nw, zvars>>

\* Context: map[string]interface{}{"max_rss_bytes": ..., "samples": ...,
\* "errors": ...}
PeakEvent(maxRSS, samples, errors) ==
    [Msg |-> "peak memory usage", max_rss_bytes |-> maxRSS,
     samples |-> samples, errors |-> errors]

\* logMaxRSS: case <-ctx.Done(): the summary event, return
ObsCtxDone ==
    /\ ~crashed
    /\ mw.watch = "logMaxRSS"
    /\ kl["lw"].pc = "select"
    /\ cctx # "live" \/ mw.cancelled
    /\ cevents' = Append(cevents, PeakEvent(ob.maxRSS, ob.samples, ob.errors))
    /\ kl' = [kl EXCEPT !["lw"].pc = "exit"]
    /\ UNCHANGED <<cctx, spw, cstd, proc, exit, ctxErr, done, drain, cw, cret,
                   crashed, lw, mw>>
    /\ UNCHANGED <<pvars, xvars, yvars>>

DebounceFromSecond(consecutiveErrors) == consecutiveErrors >= 2
\* logMaxRSS: if consecutiveErrors == 2 { eventHandler(...) }
DebounceAtSecond(consecutiveErrors) == consecutiveErrors = 2

\* logMaxRSS: case <-t.C, GetRSSAnon returns an error
ObsSampleError ==
    /\ ~crashed
    /\ mw.watch = "logMaxRSS"
    /\ kl["lw"].pc = "select"
    /\ Len(ob.log) < MaxSamples
    /\ ob' = [ob EXCEPT !.errors = @ + 1, !.consecutiveErrors = @ + 1,
                        !.log = Append(@, NoSample)]
    /\ cevents' = IF DebounceAtSecond(ob.consecutiveErrors + 1)
                  THEN Append(cevents, RSSErrorEvent)
                  ELSE cevents
    /\ UNCHANGED <<cctx, spw, cstd, proc, exit, ctxErr, done, drain, kl, cw,
                   cret, crashed, lw, mw>>
    /\ UNCHANGED <<pvars, xvars, gs, nw, zvars>>

KeepsLastRSS(rss, maxRSS) == rss
\* logMaxRSS: if rss > maxRSS { maxRSS = rss }
NewMaxRSS(rss, maxRSS) == IF rss > maxRSS THEN rss ELSE maxRSS

\* logMaxRSS: case <-t.C, GetRSSAnon returns rss
ObsSampleOk(rss) ==
    /\ ~crashed
    /\ mw.watch = "logMaxRSS"
    /\ kl["lw"].pc = "select"
    /\ Len(ob.log) < MaxSamples
    /\ ob' = [ob EXCEPT !.consecutiveErrors = 0, !.samples = @ + 1,
                        !.maxRSS = NewMaxRSS(rss, @),
                        !.log = Append(@, Sample(rss))]
    /\ UNCHANGED cvars
    /\ UNCHANGED <<pvars, xvars, gs, nw, zvars>>

-----------------------------------------------------------------------------
(* New and the options.  An option is written [name, arg].                 *)

\* most options given to New
MaxOptions == 3

Option(name, arg) == [name |-> name, arg |-> arg]
\* the options a caller may give: directories, readers (one of them an
\* io.WriterTo), writers, handlers, variables
Options ==
    {Option("WithDir", d) : d \in {"/a", "/b"}} \cup
    {Option("WithStdin", r) : r \in {"r", "rWriterTo"}} \cup
    {Option("WithStdout", w) : w \in {"w"}} \cup
    {Option("WithStdoutCloser", w) : w \in {"w", "w2"}} \cup
    {Option("WithEventHandler", h) : h \in {"h"}} \cup
    {Option("WithEnvVar", v) : v \in {"A=1", "A=2"}}

newReaderNopCloser(r) ==
    IF r = "rWriterTo" THEN [kind |-> "nopwt", of |-> r]
    ELSE [kind |-> "nop", of |-> r]

ApplyOptionKeepsFirst(p, o) ==
    CASE o.name = "WithDir" /\ p.Dir = "" -> [p EXCEPT !.Dir = o.arg]
      [] o.name = "WithStdin" /\ p.stdin = NilO ->
             [p EXCEPT !.stdin = newReaderNopCloser(o.arg)]
      [] o.name = "WithStdout" /\ p.stdout = NilO ->
             [p EXCEPT !.stdout = [kind |-> "nop", of |-> o.arg]]
      [] o.name = "WithStdoutCloser" /\ p.stdout = NilO ->
             [p EXCEPT !.stdout = [kind |-> "closer", of |-> o.arg]]
      [] o.name = "WithEventHandler" /\ p.eventHandler = "emptyEventHandler" ->
             [p EXCEPT !.eventHandler = o.arg]
      [] o.name = "WithEnvVar" -> [p EXCEPT !.Vars = Append(@, o.arg)]
      [] OTHER -> p
\* option(p): WithDir, WithStdin, WithStdout, WithStdoutCloser,
\* WithEventHandler, WithEnvVar
ApplyOption(p, o) ==
    CASE o.name = "WithDir" -> [p EXCEPT !.Dir = o.arg]
      [] o.name = "WithStdin" -> [p EXCEPT !.stdin = newReaderNopCloser(o.arg)]
      [] o.name = "WithStdout" -> [p EXCEPT !.stdout = [kind |-> "nop", of |-> o.arg]]
      [] o.name = "WithStdoutCloser" ->
             [p EXCEPT !.stdout = [kind |-> "closer", of |-> o.arg]]
      [] o.name = "WithEventHandler" -> [p EXCEPT !.eventHandler = o.arg]
      [] o.name = "WithEnvVar" -> [p EXCEPT !.Vars = Append(@, o.arg)]

\* for _, option := range options { option(p) }
RECURSIVE ApplyOptions(_, _)
ApplyOptions(p, options) ==
    IF options = <<>> THEN p
    ELSE ApplyOptions(ApplyOption(p, Head(options)), Tail(options))

\* New(options...)
New(options) == ApplyOptions(NewPipeline, options)

\* the caller calls New
CallNew ==
    /\ nw.p = NoPipeline
    /\ nw' = [nw EXCEPT !.p = New(nw.options)]
    /\ UNCHANGED <<pvars, cvars, xvars, gs, ob, zvars>>

-----------------------------------------------------------------------------
(* CgroupCache: GetOrCreateCgroup, RemoveCgroup, LoadExistingCgroups.  A   *)
(* path is a sequence of characters.                                       *)

\* most calls made on one cache
MaxCacheCalls == 3

CgCallers == {1, 2}
CgNames == {<<"a">>, <<"b">>}
\* cc.basePath
BasePaths == {<<>>, <<"p">>}

\* a *cgroup2.Manager: which call made it, for which cgroup, and whether by
\* cgroup2.NewManager or by cgroup2.Load
Manager(gen, name, by) == [gen |-> gen, name |-> name, by |-> by]
NoManager == [gen |-> 0, name |-> <<>>, by |-> "-"]

\* cgroupPath := fmt.Sprintf("%s/%s", cc.basePath, name)
CgroupPath(basePath, name) == basePath \o <<"/">> \o name
\* LoadExistingCgroups: cc.cgroups[cgroupName] = manager
LoadKey(basePath, cgroupName) == cgroupName

\* a call: the method, its argument, where it is, what it found (the names
\* discovered, whether the first lookup missed) and what it returned
CallIdle == [op |-> "-", name |-> <<>>, pc |-> "idle", found |-> {},
             missed |-> FALSE, ret |-> NoManager, err |-> FALSE]
\* an empty cache over a cgroup filesystem that holds the cgroups `fs` under
\* the base path
CgNew(basePath, fs) ==
    [basePath |-> basePath, cgroups |-> <<>>, mu |-> 0, fs |-> fs, gen |-> 0,
     calls |-> 0, call |-> [c \in CgCallers |-> CallIdle],
     made |-> [n \in CgNames |-> 0], got |-> [n \in CgNames |-> {}],
     deleted |-> {}]
CgIdle == CgNew(<<>>, {})

\* the map cc.cgroups without / with an entry
MapDelete(m, key) == [k \in DOMAIN m \ {key} |-> m[k]]
MapPut(m, key, v) == [k \in DOMAIN m \cup {key} |-> IF k = key THEN v ELSE m[k]]

\* a goroutine calls one of the three methods
CgCall(c, op, name) ==
    /\ cg.calls < MaxCacheCalls
    /\ cg.call[c].pc \in {"idle", "done"}
    /\ op = "load" => name = <<>>
    /\ op # "load" => name \in CgNames
    /\ cg' = [cg EXCEPT !.calls = @ + 1,
                        !.call[c] = [CallIdle EXCEPT !.op = op, !.name = name,
                                                     !.pc = "start"]]
    /\ UNCHANGED <<pvars, cvars, xvars, gs, ob, nw, iso>>

\* GetOrCreateCgroup: the lookup under the read lock
GetFirstCheck(c) ==
    LET call == cg.call[c]
        key == CgroupPath(cg.basePath, call.name)
    IN /\ call.op = "get"
       /\ call.pc = "start"
       /\ cg.mu = 0
       /\ IF key \in DOMAIN cg.cgroups
          THEN cg' = [cg EXCEPT !.call[c].pc = "done",
                                !.call[c].ret = cg.cgroups[key],
                                !.got[call.name] = @ \cup {cg.cgroups[key]}]
          ELSE cg' = [cg EXCEPT !.call[c].pc = "wantLock",
                                !.call[c].missed = TRUE]
       /\ UNCHANGED <<pvars, cvars, xvars, gs, ob, nw, iso>>

\* GetOrCreateCgroup: cc.mu.Lock()
GetLock(c) ==
    /\ cg.call[c].op = "get"
    /\ cg.call[c].pc = "wantLock"
    /\ cg.mu = 0
    /\ cg' = [cg EXCEPT !.mu = c, !.call[c].pc = "locked"]
    /\ UNCHANGED <<pvars, cvars, xvars, gs, ob, nw, iso>>

SecondCheckMissing(m, key) == FALSE
\* GetOrCreateCgroup: if manager, exists := cc.cgroups[cgroupPath]; exists
SecondCheck(m, key) == key \in DOMAIN m

\* GetOrCreateCgroup under the write lock: the second lookup, then
\* cgroup2.NewManager, which succeeds or fails; the deferred Unlock
GetLocked(c, ok) ==
    LET call == cg.call[c]
        key == CgroupPath(cg.basePath, call.name)
        manager == Manager(cg.gen + 1, call.name, "new")
    IN /\ call.op = "get"
       /\ call.pc = "locked"
       /\ IF SecondCheck(cg.cgroups, key)
          THEN /\ ok
               /\ cg' = [cg EXCEPT !.mu = 0,
                                   !.call[c].pc = "done",
                                   !.call[c].ret = cg.cgroups[key],
                                   !.got[call.name] = @ \cup {cg.cgroups[key]}]
          ELSE IF ok
          THEN cg' = [cg EXCEPT !.mu = 0,
                                !.gen = @ + 1,
                                !.fs = @ \cup {call.name},
                                !.cgroups = MapPut(@, key, manager),
                                !.made[call.name] = @ + 1,
                                !.call[c].pc = "done",
                                !.call[c].ret = manager,
                                !.got[call.name] = @ \cup {manager}]
          ELSE cg' = [cg EXCEPT !.mu = 0,
                                !.call[c].pc = "done",
                                !.call[c].err = TRUE]
       /\ UNCHANGED <<pvars, cvars, xvars, gs, ob, nw, iso>>

\* RemoveCgroup: under the write lock, delete the entry and manager.Delete(),
\* which succeeds or fails
RemoveCgroup(c, ok) ==
    LET call == cg.call[c]
        key == CgroupPath(cg.basePath, call.name)
    IN /\ call.op = "remove"
       /\ call.pc = "start"
       /\ cg.mu = 0
       /\ IF key \in DOMAIN cg.cgroups
          THEN cg' = [cg EXCEPT !.cgroups = MapDelete(@, key),
                                !.deleted = @ \cup {cg.cgroups[key]},
                                !.fs = IF ok THEN @ \ {cg.cgroups[key].name} ELSE @,
                                !.made[call.name] = 0,
                                !.got[call.name] = {},
                                !.call[c].pc = "done",
                                !.call[c].err = ~ok]
          ELSE /\ ok
               /\ cg' = [cg EXCEPT !.made[call.name] = 0,
                                   !.got[call.name] = {},
                                   !.call[c].pc = "done"]
       /\ UNCHANGED <<pvars, cvars, xvars, gs, ob, nw, iso>>

\* LoadExistingCgroups: DiscoverExistingCgroups walks the directories under
\* the base path, under the read lock
LoadDiscover(c) ==
    /\ cg.call[c].op = "load"
    /\ cg.call[c].pc = "start"
    /\ cg.mu = 0
    /\ cg' = [cg EXCEPT !.call[c].pc = "discovered", !.call[c].found = cg.fs]
    /\ UNCHANGED <<pvars, cvars, xvars, gs, ob, nw, iso>>

\* the entries after the loop of LoadExistingCgroups over the names found,
\* of which cgroup2.Load succeeds for those in `loadable`
RECURSIVE LoadAll(_, _, _, _)
LoadAll(m, basePath, names, gen) ==
    IF names = {} THEN m
    ELSE LET n == CHOOSE x \in names : TRUE
         IN LoadAll(MapPut(m, LoadKey(basePath, n), Manager(gen, n, "load")),
                    basePath, names \ {n}, gen)

\* LoadExistingCgroups: under the write lock, load what was found
LoadLocked(c, loadable) ==
    /\ cg.call[c].op = "load"
    /\ cg.call[c].pc = "discovered"
    /\ cg.mu = 0
    /\ loadable \subseteq cg.call[c].found
    /\ cg' = [cg EXCEPT !.gen = @ + 1,
                        !.cgroups = LoadAll(@, cg.basePath, loadable, cg.gen + 1),
                        !.call[c].pc = "done"]
    /\ UNCHANGED <<pvars, cvars, xvars, gs, ob, nw, iso>>

-----------------------------------------------------------------------------
(* The per-process isolation policies: CgroupsIsolation (cgroups v1) and    *)
(* CgroupsV2Isolation.  A cgroup is the number of its creation; 0 is nil.  *)

\* most calls of Setup and Teardown on one policy
MaxSetups == 4
IsoKinds == {"v1", "v2"}

IsoNoCall == [op |-> "-", new |-> 0, failed |-> "-", ret |-> "-"]
\* NewCgroupsIsolationPolicy / NewCgroupsV2IsolationPolicy: no cgroup is
\* recorded; made counts the cgroups created, live holds those that exist
IsoNew(kind) ==
    [kind |-> kind, manager |-> 0, made |-> 0, live |-> {}, deleted |-> {},
     calls |-> 0, crashed |-> FALSE, last |-> IsoNoCall]
IsoIdle == IsoNew("-")

\* Delete() of the cgroup m
CgroupDelete(i, m) == [i EXCEPT !.live = @ \ {m}, !.deleted = @ \cup {m}]
\* Delete() called through a nil *cgroup2.Manager: the method of the library
\* dereferences its receiver and panics, or returns without doing anything
NilDeleteOutcomes == {"panic", "return"}

\* CgroupsIsolation.Setup: cgroups.New, control.Add, and control.Delete() if
\* Add fails
CgroupsIsolationSetup(newOk, addOk) ==
    /\ iso.kind = "v1"
    /\ ~iso.crashed
    /\ iso.calls < MaxSetups
    /\ addOk => newOk
    /\ LET id == iso.made + 1
           c == [iso EXCEPT !.calls = @ + 1]
           created == [c EXCEPT !.made = id, !.live = @ \cup {id}]
       IN iso' =
            IF ~newOk
            THEN [c EXCEPT !.last = [op |-> "setup", new |-> 0, failed |-> "new", ret |-> "err"]]
            ELSE IF ~addOk
            THEN [CgroupDelete(created, id) EXCEPT
                    !.last = [op |-> "setup", new |-> id, failed |-> "add", ret |-> "err"]]
            ELSE [created EXCEPT
                    !.manager = id,
                    !.last = [op |-> "setup", new |-> id, failed |-> "-", ret |-> "nil"]]
    /\ UNCHANGED <<pvars, cvars, xvars, gs, ob, nw, cg>>

\* CgroupsV2Isolation.Setup, the branch of a failed manager.AddProc(pid):
\* c.manager.Delete(), then the error; i is the policy with the new cgroup
\* id created
AddProcFailed(i, id, nilDelete) ==
    IF i.manager = 0
    THEN IF nilDelete = "panic"
         THEN [i EXCEPT !.crashed = TRUE,
                        !.last = [op |-> "setup", new |-> id, failed |-> "add", ret |-> "panic"]]
         ELSE [i EXCEPT !.last = [op |-> "setup", new |-> id, failed |-> "add", ret |-> "err"]]
    ELSE [CgroupDelete(i, i.manager) EXCEPT
            !.last = [op |-> "setup", new |-> id, failed |-> "add", ret |-> "err"]]

\* CgroupsV2Isolation.Setup: cgroup2.NewManager, manager.AddProc
CgroupsV2IsolationSetup(newOk, addOk, nilDelete) ==
    /\ iso.kind = "v2"
    /\ ~iso.crashed
    /\ iso.calls < MaxSetups
    /\ addOk => newOk
    /\ nilDelete = "panic" \/ (newOk /\ ~addOk /\ iso.manager = 0)
    /\ LET id == iso.made + 1
           c == [iso EXCEPT !.calls = @ + 1]
           created == [c EXCEPT !.made = id, !.live = @ \cup {id}]
       IN iso' =
            IF ~newOk
            THEN [c EXCEPT !.last = [op |-> "setup", new |-> 0, failed |-> "new", ret |-> "err"]]
            ELSE IF ~addOk
            THEN AddProcFailed(created, id, nilDelete)
            ELSE [created EXCEPT
                    !.manager = id,
                    !.last = [op |-> "setup", new |-> id, failed |-> "-", ret |-> "nil"]]
    /\ UNCHANGED <<pvars, cvars, xvars, gs, ob, nw, cg>>

\* Teardown of either policy: an error without a recorded cgroup, else what
\* its Delete() returns
IsoTeardown(deleteOk) ==
    /\ iso.kind \in IsoKinds
    /\ ~iso.crashed
    /\ iso.calls < MaxSetups
    /\ iso.manager = 0 => ~deleteOk
    /\ LET c == [iso EXCEPT !.calls = @ + 1]
       IN iso' =
            IF iso.manager = 0
            THEN [c EXCEPT !.last = [op |-> "teardown", new |-> 0, failed |-> "nil", ret |-> "err"]]
            ELSE IF deleteOk
            THEN [CgroupDelete(c, iso.manager) EXCEPT
                    !.last = [op |-> "teardown", new |-> 0, failed |-> "-", ret |-> "nil"]]
            ELSE [c EXCEPT !.last = [op |-> "teardown", new |-> 0, failed |-> "delete", ret |-> "err"]]
    /\ UNCHANGED <<pvars, cvars, xvars, gs, ob, nw, cg>>

\* no function stage, watcher, New, cache or isolation policy on its own
YIdle ==
    /\ gs = GsIdle
    /\ ob = ObIdle
    /\ nw = NwIdle
    /\ cg = CgIdle
    /\ iso = IsoIdle

-----------------------------------------------------------------------------
vars == <<pvars, cvars, xvars, yvars>>

AnyResult == RunResults \cup WaitResults \cup {ErrNotStarted}

Init == PInitWith(StdinOptions, StdoutOptions) /\ CIdle /\ XIdle /\ YIdle

Next ==
    \/ \E s \in StageConfigs : Add(s, MaxStages)
    \/ StartCheck
    \/ StartInit
    \/ StartPipeFail
    \/ StartStageOk
    \/ StartStageFail
    \/ \E i \in 1..MaxStages, e \in RunResults : FnReturn(i, e)
    \/ \E e \in AnyResult : AbortWait(e, RunResults)
    \/ AbortReturn
    \/ WaitBegin
    \/ \E e \in AnyResult : WaitStep(e, RunResults)
    \/ WaitReturn

Spec == Init /\ [][Next]_vars

WaitInit == PInitWith({NilH}, {NilH}) /\ CIdle /\ XIdle /\ YIdle

WaitNext ==
    \/ Add(FnStage, MaxWaitStages)
    \/ StartCheck
    \/ StartInit
    \/ StartStageOk
    \/ \E i \in 1..MaxWaitStages, e \in WaitResults : FnReturn(i, e)
    \/ WaitBegin
    \/ \E e \in AnyResult : WaitStep(e, WaitResults)
    \/ WaitReturn

WaitSpec == WaitInit /\ [][WaitNext]_vars

RaceConfigs == {FnStage, CmdStage(FALSE, FALSE)}

RaceNext ==
    \/ \E s \in RaceConfigs : AddCheck(s)
    \/ AddAppend
    \/ StartCheck
    \/ StartInit
    \/ StartPipeFail
    \/ StartStageOk
    \/ StartStageFail
    \/ StartIndexPanic
    \/ \E i \in 1..MaxStages, e \in RunResults : FnReturn(i, e)
    \/ \E e \in AnyResult : AbortWait(e, RunResults)
    \/ AbortReturn
    \/ WaitBegin
    \/ \E e \in AnyResult : WaitStep(e, RunResults)
    \/ WaitReturn

RaceSpec == WaitInit /\ [][RaceNext]_vars

CmdInit == WaitInit

CtxErrors == {CtxCanceled, CtxDeadlineExceeded}

CmdNext ==
    \/ \E in, out \in CmdHandleKinds, copier \in BOOLEAN : CmdStart(in, out, copier)
    \/ \E in, out \in CmdHandleKinds : Start2Fail(in, out)
    \/ \E e \in CtxErrors : CtxCancel(e)
    \/ \E how \in ExitKinds : ChildExit(how)
    \/ \E e \in {NilE, ErrorE("ErrCopy")} : DrainFinish(e)
    \/ WatchdogCtxDone
    \/ WatchdogStageDone
    \/ KillCheck("wd")
    \/ KillStore("wd")
    \/ \E how \in ProcessKillOutcomes : KillSignal("wd", how)
    \/ WaitJoin
    \/ \E e \in {NilE, ErrorE("ErrIO")} \cup {ExitError(h) : h \in ExitKinds} : WaitReap(e)
    \/ WaitFilter
    \/ \E a, b \in BOOLEAN : WaitLate(a, b)
    \/ WaitDone

CmdSpec == CmdInit /\ [][CmdNext]_vars

LimitNext ==
    \/ \E copier \in BOOLEAN : MemWatchStart("file", "file", copier)
    \/ \E e \in CtxErrors : CtxCancel(e)
    \/ \E how \in ExitKinds : ChildExit(how)
    \/ \E e \in {NilE, ErrorE("ErrCopy")} : DrainFinish(e)
    \/ WatchdogCtxDone
    \/ WatchdogStageDone
    \/ \E g \in Killers : KillCheck(g)
    \/ \E g \in Killers : KillStore(g)
    \/ \E g \in Killers, how \in ProcessKillOutcomes : KillSignal(g, how)
    \/ LimitCtxDone
    \/ LimitSampleError
    \/ \E rss \in RssValues : LimitSampleBelow(rss)
    \/ \E rss \in RssValues : LimitSampleBreach(rss)
    \/ WaitJoin
    \/ \E e \in {NilE, ErrorE("ErrIO")} \cup {ExitError(h) : h \in ExitKinds} : WaitReap(e)
    \/ WaitFilter
    \/ WaitLate(FALSE, FALSE)
    \/ WaitDone
    \/ MemWatchWait
    \/ MemWatchStopped

LimitSpec == CmdInit /\ [][LimitNext]_vars

StartRaceNext ==
    \/ \E s \in RaceConfigs : Add(s, MaxStages)
    \/ StartCheck
    \/ StartInit
    \/ SecondStartCheck
    \/ SecondStartInit
    \/ StartPipeFail
    \/ StartStageOk
    \/ StartStageFail
    \/ \E i \in 1..MaxStages, e \in RunResults : FnReturn(i, e)
    \/ \E e \in AnyResult : AbortWait(e, RunResults)
    \/ AbortReturn
    \/ WaitBegin
    \/ \E e \in AnyResult : WaitStep(e, RunResults)
    \/ WaitReturn

StartRaceSpec == WaitInit /\ [][StartRaceNext]_vars

PipedNext ==
    \/ LimitNext
    \/ PipelineWaitExit

PipedSpec == CmdInit /\ [][PipedNext]_vars

\* the goroutines of the stage are scheduled: a goroutine that can take a
\* step takes one, and a select with a ready case returns
HelpersRun ==
    /\ WF_vars(WatchdogCtxDone \/ WatchdogStageDone)
    /\ WF_vars(LimitCtxDone)
    /\ \A g \in Killers :
          /\ WF_vars(KillCheck(g))
          /\ WF_vars(KillStore(g))
          /\ WF_vars(\E how \in ProcessKillOutcomes : KillSignal(g, how))

PipedLiveSpec == PipedSpec /\ HelpersRun

WatchNext ==
    \/ \E in, out \in CmdHandleKinds, copier \in BOOLEAN : CmdStart(in, out, copier)
    \/ \E in, out \in CmdHandleKinds : Start2Fail(in, out)
    \/ \E e \in CtxErrors : CtxCancelWhileRunning(e)
    \/ \E how \in ExitKinds : ChildExit(how)
    \/ \E e \in {NilE, ErrorE("ErrCopy")} : DrainFinish(e)
    \/ WatchdogCtxDone
    \/ WatchdogStageDone
    \/ KillCheck("wd")
    \/ KillStore("wd")
    \/ \E how \in ProcessKillOutcomes : KillSignal("wd", how)
    \/ WaitJoin
    \/ \E e \in {NilE, ErrorE("ErrIO")} \cup {ExitError(h) : h \in ExitKinds} : WaitReap(e)
    \/ WaitFilter
    \/ \E a, b \in BOOLEAN : WaitLate(a, b)
    \/ WaitDone

WatchLiveSpec == CmdInit /\ [][WatchNext]_vars /\ HelpersRun

EnvInit ==
    /\ PInitWith({NilH}, {NilH})
    /\ CIdle
    /\ CallersIdle
    /\ YIdle
    /\ envBase \in SeqsUpTo(EnvEntries, MaxEnv)
    /\ envVars \in SeqsUpTo(Producers, MaxProducers)
    /\ envOut = [set |-> FALSE, env |-> <<>>]

EnvNext == \E order \in SeqsUpTo(EnvKeys, Cardinality(EnvKeys)) : setupEnv(order)

EnvSpec == EnvInit /\ [][EnvNext]_vars

KillNext ==
    \/ \E copier \in BOOLEAN : CmdStart("file", "file", copier)
    \/ Start2Fail("file", "file")
    \/ \E e \in CtxErrors : CtxCancel(e)
    \/ \E how \in ExitKinds : ChildExit(how)
    \/ \E e \in {NilE, ErrorE("ErrCopy")} : DrainFinish(e)
    \/ WatchdogCtxDone
    \/ WatchdogStageDone
    \/ \E e \in ExternalErrors : ExternalKill(e)
    \/ \E g \in {"wd", "ext"} : KillCheck(g)
    \/ \E g \in {"wd", "ext"} : KillStore(g)
    \/ \E g \in {"wd", "ext"}, how \in ProcessKillOutcomes : KillSignal(g, how)
    \/ WaitJoin
    \/ \E e \in {NilE, ErrorE("ErrIO")} \cup {ExitError(h) : h \in ExitKinds} : WaitReap(e)
    \/ WaitFilter
    \/ WaitLate(FALSE, FALSE)
    \/ WaitDone

KillSpec == CmdInit /\ [][KillNext]_vars

RewaitNext ==
    \/ CmdNext
    \/ SecondWait

RewaitSpec == CmdInit /\ [][RewaitNext]_vars

\* one function stage, started with any stdin and stdout
GoNext ==
    \/ \E in, out \in GoHandleKinds : GoStartWithIO(in, out)
    \/ \E e \in FuncResults : GoFuncReturns(e)
    \/ \E e \in CloseErrors : GoCloseStdout(e)
    \/ \E e \in CloseErrors : GoCloseStdin(e)
    \/ GoCloseDone
    \/ GoWait

GoSpec == WaitInit /\ [][GoNext]_vars

\* an observed command stage in a pipeline: Start, the watcher, Wait of the
\* stage, of the adapter and of the pipeline (cmd.Stderr is set by the
\* caller, so there is no stderr copier)
ObserveNext ==
    \/ MemObserveStart("file", "file", FALSE)
    \/ \E e \in CtxErrors : CtxCancel(e)
    \/ \E how \in ExitKinds : ChildExit(how)
    \/ WatchdogCtxDone
    \/ WatchdogStageDone
    \/ KillCheck("wd")
    \/ KillStore("wd")
    \/ \E how \in ProcessKillOutcomes : KillSignal("wd", how)
    \/ ObsCtxDone
    \/ ObsSampleError
    \/ \E rss \in RssValues : ObsSampleOk(rss)
    \/ WaitJoin
    \/ \E e \in {NilE, ErrorE("ErrIO")} \cup {ExitError(h) : h \in ExitKinds} : WaitReap(e)
    \/ WaitFilter
    \/ WaitLate(FALSE, FALSE)
    \/ WaitDone
    \/ MemWatchWait
    \/ MemWatchStopped
    \/ PipelineWaitExit

ObserveSpec == CmdInit /\ [][ObserveNext]_vars

\* a command stage under either watcher
WatchersNext ==
    \/ LimitNext
    \/ ObserveNext

WatchersSpec == CmdInit /\ [][WatchersNext]_vars

\* New, called with any list of at most MaxOptions options
NewInit ==
    /\ PInitWith({NilH}, {NilH})
    /\ CIdle
    /\ XIdle
    /\ gs = GsIdle
    /\ ob = ObIdle
    /\ cg = CgIdle
    /\ iso = IsoIdle
    /\ nw \in {[options |-> os, p |-> NoPipeline] : os \in SeqsUpTo(Options, MaxOptions)}

NewNext == CallNew

NewSpec == NewInit /\ [][NewNext]_vars

\* goroutines that share one CgroupCache, over a cgroup filesystem that may
\* hold cgroups from an earlier run
CacheInit ==
    /\ PInitWith({NilH}, {NilH})
    /\ CIdle
    /\ XIdle
    /\ gs = GsIdle
    /\ ob = ObIdle
    /\ nw = NwIdle
    /\ iso = IsoIdle
    /\ cg \in {CgNew(b, fs) : b \in BasePaths, fs \in SUBSET CgNames}

CacheNext ==
    \/ \E c \in CgCallers, n \in CgNames : CgCall(c, "get", n)
    \/ \E c \in CgCallers, n \in CgNames : CgCall(c, "remove", n)
    \/ \E c \in CgCallers : CgCall(c, "load", <<>>)
    \/ \E c \in CgCallers : GetFirstCheck(c)
    \/ \E c \in CgCallers : GetLock(c)
    \/ \E c \in CgCallers, ok \in BOOLEAN : GetLocked(c, ok)
    \/ \E c \in CgCallers, ok \in BOOLEAN : RemoveCgroup(c, ok)
    \/ \E c \in CgCallers : LoadDiscover(c)
    \/ \E c \in CgCallers, l \in SUBSET CgNames : LoadLocked(c, l)

CacheSpec == CacheInit /\ [][CacheNext]_vars

\* one isolation policy of either kind, set up and torn down repeatedly
IsoInit ==
    /\ PInitWith({NilH}, {NilH})
    /\ CIdle
    /\ XIdle
    /\ gs = GsIdle
    /\ ob = ObIdle
    /\ nw = NwIdle
    /\ cg = CgIdle
    /\ iso \in {IsoNew(k) : k \in IsoKinds}

IsoNext ==
    \/ \E newOk, addOk \in BOOLEAN : CgroupsIsolationSetup(newOk, addOk)
    \/ \E newOk, addOk \in BOOLEAN, d \in NilDeleteOutcomes :
          CgroupsV2IsolationSetup(newOk, addOk, d)
    \/ \E deleteOk \in BOOLEAN : IsoTeardown(deleteOk)

IsoSpec == IsoInit /\ [][IsoNext]_vars

-----------------------------------------------------------------------------
(* Properties                                                              *)

WaitReturned == waitRet.kind # "none"
StartFailed == startRet.kind = "start"
RunDone == StartFailed \/ WaitReturned
StageIdx == 1..Len(stages)
Res(i) == rt[i].res
NonPipeFailure(i) == Res(i) \notin {NoErr, FinishEarly} /\ ~IsPipeError(Res(i))
EventIdx == 1..Len(events)

\* C1: when Pipeline.Wait has returned and some stage's Wait returned an
\* error that is neither FinishEarly nor a pipe error, Pipeline.Wait returned
\* the error of the lowest-index such stage, wrapped with that stage's name.
C1_EarliestNonPipeErrorWins ==
    WaitReturned =>
        \A i \in StageIdx :
            (NonPipeFailure(i) /\ \A j \in 1..(i - 1) : ~NonPipeFailure(j))
                => waitRet = WrapStage(Name(i), Res(i))

\* three stages; the first and the last fail with different non-pipe errors
\* and the middle one with a pipe error
C1_Witness ==
    /\ WaitReturned
    /\ Len(stages) = 3
    /\ Res(1) = "E1" /\ Res(2) = "EPIPE" /\ Res(3) = "E2"
    /\ waitRet = WrapStage(Name(1), "E1")

\* C2: when stage i returned FinishEarly and stage i-1 a pipe error, that
\* pipe error is neither what Pipeline.Wait returned nor the subject of a
\* "command failed" event.
C2_FinishEarlyHidesPipeErrorBefore ==
    WaitReturned =>
        \A i \in StageIdx \ {1} :
            (Res(i) = FinishEarly /\ IsPipeError(Res(i - 1))) =>
                /\ waitRet # WrapStage(Name(i - 1), Res(i - 1))
                /\ \A k \in EventIdx :
                      events[k] # CommandFailedEvent(Name(i - 1), Res(i - 1))

\* a pipe error, then FinishEarly, then another pipe error, which is the one
\* reported
C2_Witness ==
    /\ WaitReturned
    /\ Len(stages) = 3
    /\ Res(1) = "EPIPE" /\ Res(2) = FinishEarly /\ Res(3) = "ErrClosedPipe"
    /\ waitRet = WrapStage(Name(3), "ErrClosedPipe")

\* C3 as stated: whenever Run returns nil, every stage's Wait returned nil or
\* FinishEarly.
C3_Original ==
    waitRet = RetNil => \A i \in StageIdx : Res(i) \in {NoErr, FinishEarly}

\* a pipe error that a FinishEarly further down the pipeline explains: only
\* stages with pipe errors lie between the two
Suppressed(i) ==
    /\ IsPipeError(Res(i))
    /\ \E k \in StageIdx :
          /\ k > i
          /\ Res(k) = FinishEarly
          /\ \A j \in (i + 1)..(k - 1) : IsPipeError(Res(j))

\* C3, amended: whenever Run returns nil, every stage's Wait returned nil,
\* FinishEarly, or a pipe error that is followed, after pipe errors only, by
\* a stage that returned FinishEarly; no stage returned a non-pipe error.
C3_NilMeansNoUnexplainedError ==
    waitRet = RetNil =>
        \A i \in StageIdx : Res(i) \in {NoErr, FinishEarly} \/ Suppressed(i)

\* Run returned nil although two stages returned pipe errors
C3_Witness ==
    /\ waitRet = RetNil
    /\ Len(stages) = 3
    /\ Res(1) = "EPIPE" /\ Res(2) = "ErrClosedPipe" /\ Res(3) = FinishEarly

PipeIdx == 1..MaxPipes

\* C4: no end of an inter-stage pipe is ever closed twice, and once Run has
\* returned (nil, a stage's error or a start error) both ends of every pipe
\* that Start created have been closed exactly once.
C4_PipeEndsClosedOnce ==
    \A i \in PipeIdx :
        /\ io.pipes[i].r <= 1 /\ io.pipes[i].w <= 1
        /\ io.pipes[i].kind = "none" => (io.pipes[i].r = 0 /\ io.pipes[i].w = 0)
        /\ (RunDone /\ io.pipes[i].kind # "none") =>
               (io.pipes[i].r = 1 /\ io.pipes[i].w = 1)

\* the second of two stages failed to start after the pipe between them
\* had been made
C4_Witness ==
    /\ StartFailed
    /\ startRet.stage = 2
    /\ io.pipes[1].kind = "os"
    /\ rt[1].status = "waited"

StartFailedEvents == {k \in EventIdx : events[k].Msg = "failed to start pipeline stage"}

\* C5: when Start has returned an error for stage i, the derived context is
\* cancelled, each of the stages before i has been waited for exactly once,
\* no stage after i has been started, exactly one "failed to start pipeline
\* stage" event has been emitted, and the error names stage i and wraps the
\* error given by the failed start.
C5_StartFailureCleansUp ==
    StartFailed =>
        LET i == startRet.stage IN
        /\ i \in StageIdx
        /\ ctxDone
        /\ \A j \in 1..(i - 1) : rt[j].status = "waited" /\ rt[j].waits = 1
        /\ rt[i].status \in {"new", "failed"} /\ rt[i].waits = 0
        /\ \A j \in (i + 1)..Len(stages) : rt[j].status = "new" /\ rt[j].waits = 0
        /\ Cardinality(StartFailedEvents) = 1
        /\ \A k \in StartFailedEvents :
              events[k] = StartFailedEvent(Name(i), startRet.err)
        /\ startRet.err \in {"ErrPipe", "ErrStart"}
        /\ waitRet = RetNone

\* the second stage failed to start while the first one, a function, ran
C5_Witness ==
    /\ StartFailed
    /\ startRet = WrapStart(Name(2), "ErrStart")
    /\ stages[1].kind = "fn"
    /\ rt[1].waits = 1

\* C6: the pipe between stage i and stage i+1 is an OS pipe (both stages are
\* handed *os.File ends) exactly if stage i prefers a file for stdout or
\* stage i+1 prefers a file for stdin, and an in-process pipe otherwise.
C6_PipeKindFollowsFacingPrefs ==
    \A i \in PipeIdx :
        io.pipes[i].kind # "none" =>
            LET file == \/ Preferences(stages[i]).StdoutPreference = IOPreferenceFile
                        \/ Preferences(stages[i + 1]).StdinPreference = IOPreferenceFile
                end == IF file THEN "file" ELSE "iopipe"
            IN /\ io.pipes[i].kind = IF file THEN "os" ELSE "io"
               /\ ss[i].stdout = Handle(end, "W", i)
               /\ ss[i + 1].stdin = Handle(end, "R", i)
               /\ rt[i].status # "new" => rt[i].stdout.kind \in {end, "nil"}
               /\ rt[i + 1].status \in {"running", "finished", "waited"} =>
                      rt[i + 1].stdin.kind = end

\* an in-process pipe between two commands whose other sides prefer files
C6_Witness ==
    /\ Len(stages) = 2
    /\ stages[1] = CmdStage(FALSE, TRUE)
    /\ stages[2] = CmdStage(TRUE, FALSE)
    /\ io.pipes[1].kind = "io"
    /\ rt[2].status = "running"

\* C7: what the caller gave to WithStdin or WithStdout is never closed.
C7_CallerHandlesStayOpen ==
    /\ p_stdin.kind \in {"nop", "nopwt"} => io.inC = 0
    /\ p_stdout.kind = "nop" => io.outC = 0

\* a command reading the caller's stdin and a function writing the caller's
\* stdout have run to the end
C7_Witness ==
    /\ WaitReturned
    /\ p_stdin.kind = "nopwt"
    /\ p_stdout.kind = "nop"
    /\ Len(stages) = 2
    /\ stages[1].kind = "cmd"
    /\ stages[2].kind = "fn"
    /\ rt[1].stdin = p_stdin
    /\ rt[2].stdout = p_stdout

\* C10 as stated: once the started flag is set, the stage list never changes.
C10_Original == [][started => stages' = stages]_vars

\* C10, amended: once the started flag is set, no call of Add gets past its
\* check (it panics instead), and the stage list changes only by the append
\* of a call that had passed the check before the flag was set.
C10_NoAddPassesCheckAfterStart ==
    [][started =>
         /\ adder'.pc = "checked" => adder.pc = "checked"
         /\ adder.pc = "idle" => (stages' = stages /\ adder'.pc \in {"idle", "panic"})
         /\ stages' # stages => (adder.pc = "checked" /\ stages' = Append(stages, adder.arg))
      ]_vars

\* an Add called after Start had set the flag has panicked
C10_Witness ==
    /\ started
    /\ adder.pc = "panic"
    /\ Len(stages) = 1

-----------------------------------------------------------------------------
(* The command stage's result                                              *)

CmdWaitReturned == cret # NoneE
KillSignals == {"SIGTERM", "SIGKILL"}

\* C8: once a command stage's Wait has returned: if the child died from the
\* SIGKILL the stage's Kill sent after the context was cancelled, or it died
\* from SIGTERM or SIGKILL and a cancellation cause was recorded, the result
\* is the context's error and not the exit error; if cmd.Wait gave an exit
\* error and either no cause was recorded or the status is not one of those
\* two signals, the result is that exit error with the captured stderr attached.
C8_KilledAfterCancelReturnsCtxError ==
    CmdWaitReturned =>
        /\ (exit.by = "wd" /\ exit.how \in KillSignals) => cret = ErrorE(cctx)
        /\ (cw.raw.kind = "exit" /\ cw.raw.val \in KillSignals /\ cw.cause # "none")
               => cret = ErrorE(cctx)
        /\ (cw.raw.kind = "exit" /\ (cw.cause = "none" \/ cw.raw.val \notin KillSignals))
               => cret = [cw.raw EXCEPT !.stderr = TRUE]

\* the watchdog killed the child after a cancellation and Wait returned the
\* context's error
C8_Witness ==
    /\ CmdWaitReturned
    /\ exit.by = "wd"
    /\ exit.how = "SIGKILL"
    /\ cctx = CtxCanceled
    /\ cret = ErrorE(CtxCanceled)

\* C9: when the limit watcher's Kill ended the child by its signal while the
\* context was still live, the stage's Wait returns ErrMemoryLimitExceeded, whatever a
\* later cancellation of the context does.
C9_LimitKillReportsMemoryError ==
    (mw.pc = "returned" /\ exit.by = "lw" /\ exit.how \in KillSignals /\ exit.ctx = "live")
        => mw.ret = ErrorE(ErrMemoryLimitExceeded)

-----------------------------------------------------------------------------
(* Start called twice                                                      *)

\* the goroutine is past the lifecycle check of Start
DriverPastCheck == pc \in {"checked", "starting", "aborting", "started", "waiting", "done"}
SecondPastCheck == st2.pc \in {"checked", "starting"}

\* C11: of the two calls of Start on one pipeline, at most one gets past
\* the lifecycle check; the other one panics and starts no stage.
C11_OnlyOneStartPassesCheck == ~(DriverPastCheck /\ SecondPastCheck)

-----------------------------------------------------------------------------
(* How often and in which order the stages are waited for                  *)

\* C12: when Run has returned, Wait has been called exactly once on every
\* stage whose Start returned nil, and not at all on a stage whose Start
\* failed or was never called.
C12_EachStartedStageWaitedOnce ==
    RunDone =>
        \A i \in StageIdx :
            /\ rt[i].status \in {"waited", "failed", "new"}
            /\ rt[i].status = "waited" => rt[i].waits = 1
            /\ rt[i].status \in {"failed", "new"} => rt[i].waits = 0

\* Start failed at the second stage, after the first one had been started
C12_Witness ==
    /\ StartFailed
    /\ Len(stages) = 2
    /\ rt[1].status = "waited" /\ rt[1].waits = 1
    /\ rt[2].status = "failed" /\ rt[2].waits = 0

\* C13: Pipeline.Wait calls the stages' Wait in strictly decreasing index
\* order: a stage is waited for only when every later stage has been waited
\* for and no earlier one has; and Pipeline.Wait returns only when the Wait
\* of every stage has returned.
C13_WaitsLastToFirst ==
    [][/\ pc = "waiting" =>
            \A j \in StageIdx :
                rt'[j].waits > rt[j].waits =>
                    \A k \in StageIdx :
                        /\ k > j => rt[k].waits = 1
                        /\ k < j => rt[k].waits = 0
       /\ (~WaitReturned /\ WaitReturned') =>
            \A j \in StageIdx : rt[j].status = "waited" /\ rt[j].waits = 1]_vars

\* the last two of three stages have been waited for, the first one not yet
C13_Witness ==
    /\ pc = "waiting"
    /\ Len(stages) = 3
    /\ rt[3].waits = 1 /\ rt[2].waits = 1 /\ rt[1].waits = 0

-----------------------------------------------------------------------------
(* What Pipeline.Wait reports                                              *)

CommandFailedEvents == {k \in EventIdx : events[k].Msg = "command failed"}

\* C14: Pipeline.Wait returns nil or the error of one stage, wrapped with
\* the name of that stage; when it returns an error the "command failed"
\* event has been emitted exactly once, for that stage and that error, and
\* when it returns nil, or has not returned, it has not been emitted.
C14_OneErrorOneEvent ==
    /\ ~WaitReturned => CommandFailedEvents = {}
    /\ WaitReturned =>
        IF waitRet = RetNil THEN CommandFailedEvents = {}
        ELSE /\ waitRet.kind = "stage"
             /\ \E i \in StageIdx :
                    /\ waitRet = WrapStage(Name(i), Res(i))
                    /\ Res(i) \notin {NoErr, FinishEarly}
                    /\ Cardinality(CommandFailedEvents) = 1
                    /\ \A k \in CommandFailedEvents :
                           /\ events[k].Command = Name(i)
                           /\ events[k].Err = Res(i)

\* two stages failed, each with an error of its own, and Wait reported one
C14_Witness ==
    /\ WaitReturned
    /\ waitRet.kind = "stage"
    /\ \E i, j \in StageIdx : i < j /\ Res(i) = "E1" /\ Res(j) = "E2"
    /\ Cardinality(CommandFailedEvents) = 1

-----------------------------------------------------------------------------
(* The helper goroutines of a command stage                                *)

HelpersGone == \A g \in Killers : kl[g].pc \in {"none", "exit"}

\* C15: once Pipeline.Wait has returned, the derived context is done, and
\* the watchdog and the memory poller of the stage come to an end (or the
\* process has died of a panic): none of them runs forever.
C15_HelpersEndAfterWait ==
    /\ [](pw.pc = "returned" => cctx # "live")
    /\ (pw.pc = "returned") ~> (crashed \/ HelpersGone)

\* Pipeline.Wait has returned the stage's error while the poller is still
\* in its loop
C15_Witness ==
    /\ pw.pc = "returned"
    /\ pw.ret # NilE
    /\ kl["lw"].pc = "select"
    /\ exit.by = "own"

\* the watchdog has stored the context's error and called Process.Kill
WatchdogKilled == kl["wd"].pc = "exit" /\ ctxErr = cctx

-----------------------------------------------------------------------------
(* The environment a command gets                                          *)

\* what the producers have appended, and the keys they name
Produced == RunProducers(envVars)
Overridden == {Produced[i].Key : i \in 1..Len(Produced)}
\* the value produced last for key k
LastValue(k) ==
    LET at == {i \in 1..Len(Produced) : Produced[i].Key = k}
    IN Produced[CHOOSE i \in at : \A j \in at : i >= j].Value
HasKey(v, k) == IndexEq(v) > 0 /\ KeyOf(v) = k
KeptBase == {i \in 1..Len(envBase) : \A k \in Overridden : ~HasKey(envBase[i], k)}
Occurrences(env, v) == Cardinality({i \in 1..Len(env) : env[i] = v})

\* C17: the assembled environment holds every base entry whose key is not
\* overridden, as often as the base does; for every overridden key exactly
\* one entry with that key, KEY=VALUE with the value produced last; and
\* nothing else.
C17_EnvLastWriterWins ==
    envOut.set =>
        /\ \A i \in KeptBase :
               Occurrences(envOut.env, envBase[i]) =
                   Cardinality({j \in KeptBase : envBase[j] = envBase[i]})
        /\ \A k \in Overridden :
               /\ Cardinality({j \in 1..Len(envOut.env) : HasKey(envOut.env[j], k)}) = 1
               /\ \A j \in 1..Len(envOut.env) :
                      HasKey(envOut.env[j], k) =>
                          envOut.env[j] = k \o <<"=">> \o LastValue(k)
        /\ Len(envOut.env) = Cardinality(KeptBase) + Cardinality(Overridden)

\* a key of the base is produced twice, with two values, next to a base
\* entry that stays
C17_Witness ==
    /\ envOut.set
    /\ Len(Produced) = 2
    /\ Produced[1].Key = Produced[2].Key
    /\ Produced[1].Value # Produced[2].Value
    /\ \E i \in 1..Len(envBase) : HasKey(envBase[i], Produced[1].Key)
    /\ KeptBase # {}

-----------------------------------------------------------------------------
(* Kill                                                                    *)

\* C18: Kill stores its error as the cancellation cause only if none is
\* recorded yet: a cause, once recorded, is not replaced by a later Kill, so
\* the cause Wait returns is the error of the first call.
C18_FirstCauseWins == [][ctxErr # "none" => ctxErr' = ctxErr]_vars

NeverSpawned == spw \in {"new", "failed"}

\* C19: as long as the child has not been spawned (before Start, or after a
\* failed Start), a call of Kill returns at its first check: no goroutine
\* has panicked, no cause is recorded, no process has been signalled.
C19_KillWithoutProcessDoesNothing ==
    NeverSpawned =>
        /\ ~crashed
        /\ ctxErr = "none"
        /\ proc = "none"
        /\ exit.how = "none"
        /\ \A g \in Killers : kl[g].pc \in {"none", "kill", "exit"}

\* Kill has been called before Start and again after Start failed, and has
\* returned both times
C19_Witness ==
    /\ spw = "failed"
    /\ kills = 2
    /\ kl["ext"].pc = "exit"
    /\ ctxErr = "none"

-----------------------------------------------------------------------------
(* Wait called twice on a stage                                            *)

\* C20: a second call of a started command stage's Wait, made after the
\* first has returned, returns what the first call returned, and does not
\* panic.
C20_SecondWaitSameResult ==
    cw2.pc # "idle" =>
        /\ cw2.pc = "returned"
        /\ cw2.ret = cret
        /\ ~crashed

\* what the goroutine of the function stage has done so far
GoLogged(what) == \E k \in 1..Len(gs.log) : gs.log[k].what = what
GoErrOf(what) ==
    IF GoLogged(what)
    THEN gs.log[CHOOSE k \in 1..Len(gs.log) : gs.log[k].what = what].err
    ELSE NoErr
GoWaitReturned == gs.ret # NoneG

CmdCloses(side) == IF side = "in" THEN cstd.inC ELSE cstd.outC
CmdHanded(side) == IF side = "in" THEN cstd.in ELSE cstd.out
CmdLateClosed == cw.pc \in {"closed", "returned"}

\* C22: of the stdin and the stdout handed to a command stage, a real file
\* is closed once as soon as the child has been spawned and not again in
\* Wait; a nop-wrapped one is never closed; any other is not closed before
\* Wait has reaped the child and is closed exactly once by the end of Wait.
C22_CloseRegimeOfCommandStage ==
    \A side \in {"in", "out"} :
        CASE CmdHanded(side) = "file" ->
                 CmdCloses(side) = IF spw = "started" THEN 1 ELSE 0
          [] CmdHanded(side) \in {"nil", "nop", "nopwt"} ->
                 CmdCloses(side) = 0
          [] OTHER ->
                 /\ CmdCloses(side) = IF CmdLateClosed THEN 1 ELSE 0
                 /\ CmdLateClosed => proc = "reaped"

\* Wait has returned for a stage started with a pipe as stdin and a file as
\* stdout
C22_Witness ==
    /\ cw.pc = "returned"
    /\ cstd.in = "iopipe"
    /\ cstd.out = "file"
    /\ cstd.inC = 1
    /\ cstd.outC = 1

\* the steps of commandStage.Wait, in the order of the code
CmdWaitOrder == <<"idle", "joined", "reaped", "filtered", "closed", "returned">>
CmdWaitStepNo(p) == CHOOSE k \in 1..Len(CmdWaitOrder) : CmdWaitOrder[k] = p

\* C23: commandStage.Wait joins the stderr drain, then reaps the child, then
\* reclassifies its error, then closes the late closers, one after the
\* other; the child is reaped only when the drain has finished, the error is
\* reclassified only when the child has been reaped, and a late closer is
\* closed only when the child has been reaped and its error reclassified.
C23_WaitStepsInOrder ==
    [][/\ cw'.pc # cw.pc =>
              CmdWaitStepNo(cw'.pc) = CmdWaitStepNo(cw.pc) + 1
       /\ proc' = "reaped" /\ proc # "reaped" =>
              /\ drain.pc # "running"
              /\ cw.pc = "joined"
              /\ cw'.pc = "reaped"
       /\ (cw'.cause # cw.cause \/ cw'.pc = "filtered") /\ cw.pc # "filtered" =>
              /\ proc = "reaped"
              /\ cw.pc = "reaped"
       /\ cstd'.inC > cstd.inC \/ cstd'.outC > cstd.outC =>
              \/ spw = "new"
              \/ /\ proc = "reaped"
                 /\ cw.pc = "filtered"
                 /\ cw'.pc = "closed"]_vars

\* Wait has returned after it joined a drain that ran, reaped the child and
\* closed a late closer
C23_Witness ==
    /\ cw.pc = "returned"
    /\ drain.pc = "finished"
    /\ proc = "reaped"
    /\ cstd.in = "iopipe"
    /\ cstd.inC = 1

\* C28: when commandStage.Wait has returned, the stderr drain task and the
\* context watchdog of the stage have both terminated.
C28_HelpersJoinedWhenWaitReturns ==
    cw.pc = "returned" =>
        /\ drain.pc # "running"
        /\ kl["wd"].pc \in {"none", "exit"}

\* the limit watcher takes a sample in this step
LimitSamples == lw'.n = lw.n + 1
\* the limit watcher has called Kill
LimitKillCalled == kl["lw"].pc \in {"kill", "checked", "stored"}
ExceededEvents ==
    {k \in 1..Len(cevents) : cevents[k].Msg = "stage exceeded allowed memory use"}

\* C24: the limit watcher calls Kill(ErrMemoryLimitExceeded) on the first
\* sample that succeeds with a value at or above the ceiling, and on no
\* failed sample and no sample below it; the event with (limit, observed)
\* is emitted before that Kill; after the Kill it takes no sample and it
\* calls Kill no second time.
C24_KillsAtFirstBreach ==
    [][/\ LimitSamples =>
            IF lw'.last.ok /\ lw'.last.rss >= ByteLimit
            THEN /\ kl'["lw"] = [pc |-> "kill", err |-> ErrMemoryLimitExceeded]
                 /\ cevents' = Append(cevents,
                        [Msg |-> "stage exceeded allowed memory use",
                         limit |-> ByteLimit, used |-> lw'.last.rss])
            ELSE /\ kl'["lw"] = kl["lw"]
                 /\ ExceededEvents' = ExceededEvents
       /\ kl'["lw"].pc = "kill" /\ kl["lw"].pc # "kill" =>
            /\ LimitSamples
            /\ ExceededEvents = {}
       /\ LimitKillCalled \/ kl["lw"].pc = "exit" =>
            /\ ~LimitSamples
            /\ kl'["lw"].pc # "select"
       /\ LimitKillCalled' => ExceededEvents' # {}]_vars

\* the second sample was exactly the ceiling, and the watcher's Kill has
\* ended the child
C24_Witness ==
    /\ lw.n = 2
    /\ lw.last = Sample(ByteLimit)
    /\ exit.by = "lw"
    /\ \E k \in ExceededEvents : cevents[k].used = ByteLimit

\* the 'error getting RSS' events so far
RSSErrorEvents ==
    Cardinality({k \in 1..Len(cevents) : cevents[k].Msg = "error getting RSS"})
\* a step in which a sample fails, and how long the streak of failures is
\* after it
LimitSampleFails == lw'.n = lw.n + 1 /\ lw'.consec = lw.consec + 1
ObserverSampleFails == Len(ob'.log) = Len(ob.log) + 1 /\ ~ob'.log[Len(ob'.log)].ok
ObserverStreak == ob'.consecutiveErrors
\* one event at the second failure of a streak, none at any other; a sample
\* that succeeds ends the streak; the watcher goes on polling
LimitDebounced ==
    /\ LimitSampleFails =>
          /\ RSSErrorEvents' = RSSErrorEvents + (IF lw'.consec = 2 THEN 1 ELSE 0)
          /\ kl'["lw"].pc = "select"
    /\ lw'.n = lw.n + 1 /\ lw'.last.ok => lw'.consec = 0
ObserverDebounced ==
    /\ ObserverSampleFails =>
          /\ ObserverStreak = ob.consecutiveErrors + 1
          /\ RSSErrorEvents' = RSSErrorEvents + (IF ObserverStreak = 2 THEN 1 ELSE 0)
          /\ kl'["lw"].pc = "select"
    /\ Len(ob'.log) = Len(ob.log) + 1 /\ ob'.log[Len(ob'.log)].ok =>
          ObserverStreak = 0

\* C25: in the limit watcher and in the observer, a streak of failed samples
\* emits one 'error getting RSS' event, at its second failure, and no other;
\* a sample that succeeds re-arms the debounce; polling goes on after a
\* failure.
C25_ErrorsDebouncedInBothWatchers ==
    [][LimitDebounced /\ ObserverDebounced]_vars

\* the summary events so far, and what the observer has sampled
PeakEvents == {k \in 1..Len(cevents) : cevents[k].Msg = "peak memory usage"}
ObservedOk == {k \in 1..Len(ob.log) : ob.log[k].ok}
ObservedPeak ==
    IF ObservedOk = {} THEN 0
    ELSE LET rs == {ob.log[k].rss : k \in ObservedOk}
         IN CHOOSE m \in rs : \A r \in rs : r <= m

\* C26: an observed stage emits no summary event while its watcher polls and
\* exactly one when the watcher ends, which it does only when its context is
\* cancelled; the event carries the largest successful sample (0 without
\* one), the number of successful samples and the number of failed ones.
C26_OneSummaryWithPeakAndCounts ==
    mw.watch = "logMaxRSS" =>
        IF kl["lw"].pc = "exit"
        THEN /\ cctx # "live" \/ mw.cancelled
             /\ Cardinality(PeakEvents) = 1
             /\ \A k \in PeakEvents :
                   /\ cevents[k].max_rss_bytes = ObservedPeak
                   /\ cevents[k].samples = Cardinality(ObservedOk)
                   /\ cevents[k].errors = Len(ob.log) - Cardinality(ObservedOk)
        ELSE PeakEvents = {}

\* the summary has been emitted after a high sample, a failed one and a
\* lower one
C26_Witness ==
    /\ mw.watch = "logMaxRSS"
    /\ ob.log = <<Sample(ByteLimit + 1), NoSample, Sample(ByteLimit)>>
    /\ \E k \in PeakEvents :
          /\ cevents[k].max_rss_bytes = ByteLimit + 1
          /\ cevents[k].samples = 2
          /\ cevents[k].errors = 1

\* C27: when the Wait of the memory-watch adapter has returned, with nil or
\* with an error, the watcher's context has been cancelled and the watcher
\* has ended (an observer has emitted its summary), and the value returned
\* is what the Wait of the wrapped stage returned.
C27_AdapterWaitStopsWatcher ==
    mw.pc = "returned" =>
        /\ mw.cancelled \/ cctx # "live"
        /\ kl["lw"].pc = "exit"
        /\ mw.watch = "logMaxRSS" => PeakEvents # {}
        /\ mw.ret = cret

\* C29: a stdout given with WithStdoutCloser has been closed exactly once
\* when Run has returned, whether the pipeline succeeded, a stage failed or
\* a stage could not be started.
C29_StdoutCloserClosedOnceAfterRun ==
    RunDone /\ p_stdout.kind = "closer" => io.outC = 1

\* the same options in another order
Reorderings(options) ==
    LET n == Len(options)
        perms == {q \in [1..n -> 1..n] : \A i, j \in 1..n : q[i] = q[j] => i = j}
    IN {[i \in 1..n |-> options[q[i]]] : q \in perms}
\* the part of the configuration an option sets
PartOf(o) ==
    CASE o.name = "WithDir" -> "Dir"
      [] o.name = "WithStdin" -> "stdin"
      [] o.name \in {"WithStdout", "WithStdoutCloser"} -> "stdout"
      [] o.name = "WithEventHandler" -> "eventHandler"
      [] OTHER -> "Vars"
SamePart(o1, o2) == PartOf(o1) = PartOf(o2) /\ PartOf(o1) # "Vars"
NoTwoSetSamePart(options) ==
    \A i, j \in 1..Len(options) :
        i # j => ~SamePart(options[i], options[j]) \/ options[i] = options[j]
SameButVars(p, q) ==
    /\ p.Dir = q.Dir
    /\ p.stdin = q.stdin
    /\ p.stdout = q.stdout
    /\ p.eventHandler = q.eventHandler
NewDone == nw.p # NoPipeline
\* the last option of the list that sets this part; 0 if there is none
LastSetting(part) ==
    LET at == {i \in 1..Len(nw.options) : PartOf(nw.options[i]) = part}
    IN IF at = {} THEN 0 ELSE CHOOSE i \in at : \A j \in at : j <= i

\* C30, as stated: the same options in any order give the same directory,
\* stdin, stdout and event handler.
C30_Original ==
    NewDone => \A os \in Reorderings(nw.options) : SameButVars(New(os), nw.p)

\* C30: options in which no two set the same part of the configuration give
\* the same directory, stdin, stdout and event handler in any order; of
\* several options that set the same part the last one wins; the variable
\* producers are kept in the order of the options.
C30_CommutativeAcrossParts ==
    NewDone =>
        /\ NoTwoSetSamePart(nw.options) =>
               \A os \in Reorderings(nw.options) : SameButVars(New(os), nw.p)
        /\ nw.p.Dir = IF LastSetting("Dir") = 0 THEN ""
                      ELSE nw.options[LastSetting("Dir")].arg
        /\ nw.p.stdin.of = IF LastSetting("stdin") = 0 THEN "-"
                           ELSE nw.options[LastSetting("stdin")].arg
        /\ nw.p.stdout.of = IF LastSetting("stdout") = 0 THEN "-"
                            ELSE nw.options[LastSetting("stdout")].arg
        /\ nw.p.stdout.kind =
               IF LastSetting("stdout") = 0 THEN "nil"
               ELSE IF nw.options[LastSetting("stdout")].name = "WithStdout"
                    THEN "nop" ELSE "closer"
        /\ nw.p.eventHandler = IF LastSetting("eventHandler") = 0
                               THEN "emptyEventHandler"
                               ELSE nw.options[LastSetting("eventHandler")].arg
        /\ Len(nw.p.Vars) = Cardinality({i \in 1..Len(nw.options) :
                                            PartOf(nw.options[i]) = "Vars"})
        /\ \A i, j \in 1..Len(nw.options) :
               /\ i < j
               /\ PartOf(nw.options[i]) = "Vars"
               /\ PartOf(nw.options[j]) = "Vars"
               => \E k, l \in 1..Len(nw.p.Vars) :
                      /\ k < l
                      /\ nw.p.Vars[k] = nw.options[i].arg
                      /\ nw.p.Vars[l] = nw.options[j].arg

\* New has been called with three options that set three different parts
C30_Witness ==
    /\ NewDone
    /\ Len(nw.options) = MaxOptions
    /\ NoTwoSetSamePart(nw.options)
    /\ \E i \in 1..Len(nw.options) : nw.options[i].name = "WithStdoutCloser"
    /\ nw.p.stdout.kind = "closer"

\* C31: between two calls of RemoveCgroup for a name, however the calls of
\* GetOrCreateCgroup for that name interleave, cgroup2.NewManager succeeds
\* for it at most once and all calls that succeed return one manager.
C31_CreatedOnceSameManager ==
    \A n \in CgNames :
        /\ cg.made[n] <= 1
        /\ Cardinality(cg.got[n]) <= 1

\* two goroutines have asked for the same name at the same time, both found
\* nothing under the read lock, and both have returned
C31_Witness ==
    /\ cg.call[1].op = "get"
    /\ cg.call[2].op = "get"
    /\ cg.call[1].name = cg.call[2].name
    /\ cg.call[1].pc = "done"
    /\ cg.call[2].pc = "done"
    /\ cg.call[1].missed
    /\ cg.call[2].missed
    /\ cg.calls = 2
    /\ cg.made[cg.call[1].name] = 1
    /\ cg.call[1].ret.gen = 1
    /\ cg.call[2].ret.gen = 1
    /\ cg.call[1].ret = cg.call[2].ret

\* the managers in the cache that LoadExistingCgroups loaded for this name
LoadedFor(n) ==
    {cg.cgroups[k] : k \in {j \in DOMAIN cg.cgroups :
                               cg.cgroups[j].name = n /\ cg.cgroups[j].by = "load"}}
\* this call returns in this step
CgReturns(c, op) ==
    /\ cg.call[c].op = op
    /\ cg.call[c].pc # "done"
    /\ cg'.call[c].pc = "done"

\* C32: while the cache holds a manager that LoadExistingCgroups loaded for
\* the name n, GetOrCreateCgroup(n) returns that manager and creates
\* nothing, and RemoveCgroup(n) takes it out of the cache and deletes it.
C32_LoadedCgroupIsReused ==
    [][\A c \in CgCallers :
          LET n == cg.call[c].name
          IN /\ CgReturns(c, "get") /\ LoadedFor(n) # {} =>
                    /\ cg'.call[c].ret \in LoadedFor(n)
                    /\ cg'.gen = cg.gen
             /\ CgReturns(c, "remove") /\ LoadedFor(n) # {} =>
                    /\ LoadedFor(n)' = {}
                    /\ LoadedFor(n) \subseteq cg'.deleted]_vars

\* stage i returned FinishEarly and the two stages before it pipe errors
PipeChainBefore(i) ==
    /\ i >= 3
    /\ Res(i) = FinishEarly
    /\ IsPipeError(Res(i - 1))
    /\ IsPipeError(Res(i - 2))
NoErrorOutside(S) ==
    \A k \in StageIdx \ S : Res(k) \in {NoErr, FinishEarly}

\* C33 as stated: when stage i returned FinishEarly, stages i-1 and i-2 pipe
\* errors and no other stage an error, Pipeline.Wait returned stage i-2's
\* pipe error.
C33_Original ==
    WaitReturned =>
        \A i \in StageIdx :
            PipeChainBefore(i) /\ NoErrorOutside({i - 1, i - 2}) =>
                waitRet = WrapStage(Name(i - 2), Res(i - 2))

\* C33, amended: the suppression is carried upstream through consecutive
\* pipe errors: when stage i returned FinishEarly and stages i-1 and i-2 pipe
\* errors, stage i-2's pipe error is not what Pipeline.Wait returned, and
\* Pipeline.Wait returned nil if no other stage returned an error.
C33_SuppressionCarriesThroughPipeErrors ==
    WaitReturned =>
        \A i \in StageIdx :
            PipeChainBefore(i) =>
                /\ waitRet # WrapStage(Name(i - 2), Res(i - 2))
                /\ NoErrorOutside({i - 1, i - 2}) => waitRet = RetNil

\* two pipe errors before a FinishEarly, nothing reported
C33_Witness ==
    /\ WaitReturned
    /\ Len(stages) = 3
    /\ Res(1) = "ErrClosedPipe" /\ Res(2) = "EPIPE" /\ Res(3) = FinishEarly
    /\ waitRet = RetNil
    /\ events = <<>>

\* C34: a stage that returned nil ends the suppression: when stage i
\* returned FinishEarly, stage i-1 nil, stage i-2 a pipe error and no other
\* stage an error, Pipeline.Wait returned stage i-2's pipe error, wrapped
\* with that stage's name.
C34_NilEndsSuppression ==
    WaitReturned =>
        \A i \in StageIdx :
            ( /\ i >= 3
              /\ Res(i) = FinishEarly
              /\ Res(i - 1) = NoErr
              /\ IsPipeError(Res(i - 2))
              /\ NoErrorOutside({i - 2}) ) =>
                waitRet = WrapStage(Name(i - 2), Res(i - 2))

\* a pipe error, nil, FinishEarly: the pipe error is reported
C34_Witness ==
    /\ WaitReturned
    /\ Len(stages) = 3
    /\ Res(1) = "EPIPE" /\ Res(2) = NoErr /\ Res(3) = FinishEarly
    /\ waitRet = WrapStage(Name(1), "EPIPE")

OnlyPipeErrors ==
    /\ \A k \in StageIdx : Res(k) = NoErr \/ IsPipeError(Res(k))
    /\ \E k \in StageIdx : IsPipeError(Res(k))
LastPipeError == CHOOSE k \in StageIdx :
    IsPipeError(Res(k)) /\ \A j \in StageIdx : j > k => ~IsPipeError(Res(j))

\* C35: when every stage returned nil or a pipe error and at least one a
\* pipe error, Pipeline.Wait returned the pipe error of the highest-index
\* such stage; and an iteration of Wait's loop whose stage returned a pipe
\* error leaves an error that is already recorded as it is.
C35_LastPipeErrorWins ==
    /\ [](WaitReturned /\ OnlyPipeErrors =>
              waitRet = WrapStage(Name(LastPipeError), Res(LastPipeError)))
    /\ [][(pc = "waiting" /\ idx >= 1 /\ idx' = idx - 1
             /\ IsPipeError(rt'[idx].res) /\ earliest.err # NoErr)
            => earliest' = earliest]_vars

\* two different pipe errors with a nil in between: the later one is reported
C35_Witness ==
    /\ WaitReturned
    /\ Len(stages) = 3
    /\ Res(1) = "EPIPE" /\ Res(2) = "ErrClosedPipe" /\ Res(3) = NoErr
    /\ waitRet = WrapStage(Name(2), "ErrClosedPipe")

CmdLate(side) ==
    IF side = "in" THEN StdinRegime(KindOf(cstd.in)) = "late"
    ELSE StdoutRegime(KindOf(cstd.out)) = "late"
CmdCloseFailure ==
    IF "in" \in cw.failed /\ CmdLate("in") THEN ErrorE("ErrCloseStdin")
    ELSE IF "out" \in cw.failed /\ CmdLate("out") THEN ErrorE("ErrCloseStdout")
    ELSE NilE

\* C36: when commandStage.Wait has returned, every late closer has been
\* closed exactly once, whatever cmd.Wait, the stderr drain and the other
\* closers returned, and the result is the child's reclassified error if
\* there is one, otherwise the error of the stderr drain if there is one,
\* otherwise the error of the first late closer whose Close failed.
C36_LateClosersClosedAndErrorPriority ==
    cw.pc = "returned" =>
        /\ \A side \in {"in", "out"} : CmdLate(side) => CmdCloses(side) = 1
        /\ LET child == filterCmdError(cw.raw, cw.cause)
           IN cret = IF child # NilE THEN child
                     ELSE IF cw.wgErr # NilE THEN cw.wgErr
                     ELSE CmdCloseFailure

\* the child failed, the drain failed and both late closers failed to close:
\* both were closed once and the child's error is returned
C36_Witness ==
    /\ cw.pc = "returned"
    /\ cw.raw.kind = "exit"
    /\ cw.wgErr # NilE
    /\ cw.failed = {"in", "out"}
    /\ cstd.inC = 1 /\ cstd.outC = 1
    /\ cret = filterCmdError(cw.raw, cw.cause)
    /\ cret # NilE

\* only the late closers failed: the error of stdin's Close is returned
C36_WitnessCloseError ==
    /\ cw.pc = "returned"
    /\ cw.raw = NilE /\ cw.wgErr = NilE
    /\ cw.failed = {"in", "out"}
    /\ cret = ErrorE("ErrCloseStdin")

AllStagesWaited == \A i \in StageIdx : rt[i].waits >= 1
StartSucceeded == fail.at = 0

\* C37: in a run whose Start succeeds (the caller's context is never
\* cancelled here), the context derived in Start is cancelled only when
\* Pipeline.Wait exits, after the Wait of every stage has returned; and
\* whenever the pipeline cancels it, that is a step of Start's abort path or
\* the exit of Pipeline.Wait.
C37_NoCancelBeforeStagesWaited ==
    /\ [](ctxDone /\ StartSucceeded => WaitReturned /\ AllStagesWaited)
    /\ [][~ctxDone /\ ctxDone' =>
             \/ pc = "starting" /\ pc' = "aborting"
             \/ pc = "waiting" /\ WaitLoopEnded(idx) /\ pc' = "done"]_vars

\* Run has returned for two started stages: both were waited for and the
\* context is cancelled
C37_Witness ==
    /\ pc = "done"
    /\ StartSucceeded
    /\ Len(stages) = 2
    /\ AllStagesWaited
    /\ WaitReturned
    /\ ctxDone

\* steps of Kill: the store of the cause, and the call of Process.Kill
KillStores(g) == kl[g].pc = "checked" /\ kl'[g].pc = "stored"
KillCallsProcessKill(g) == kl[g].pc = "stored" /\ kl'[g].pc = "exit"

\* C38: once the stage's Wait has completed (s.done is closed), no call of
\* Kill stores a cancellation cause and none calls Process.Kill.
C38_NoKillEffectAfterWait ==
    [][done => \A g \in Killers : ~KillStores(g) /\ ~KillCallsProcessKill(g)]_vars

EmptyPipeline == Len(stages) = 0

\* C39: Start on a pipeline without stages never returns: it panics, with
\* the started flag set; and from then on no call of Add changes the stage
\* list and no call of Start gets past the lifecycle check.
C39_EmptyStartPanicsAfterFlag ==
    /\ [](EmptyPipeline =>
              /\ pc \in {"config", "checked", "panic"}
              /\ startRet.kind = "none"
              /\ pc = "panic" => started)
    /\ [][pc = "panic" /\ EmptyPipeline =>
             stages' = stages /\ pc' = "panic" /\ started']_vars

\* Start has panicked on an empty pipeline
C39_Witness ==
    /\ EmptyPipeline
    /\ pc = "panic"
    /\ started
    /\ startRet.kind = "none"

\* a call of Setup in which adding the process to the new cgroup failed
SetupAddFails ==
    /\ iso'.calls = iso.calls + 1
    /\ iso'.last.op = "setup"
    /\ iso'.last.failed = "add"

\* C40: when Setup fails to add the process to the cgroup it has just
\* created, it deletes that cgroup and no other, returns an error, and
\* leaves the policy's recorded cgroup as it was.
C40_FailedSetupLeavesNoTrace ==
    [][SetupAddFails =>
          /\ iso'.last.ret = "err"
          /\ iso'.deleted = iso.deleted \cup {iso'.last.new}
          /\ iso'.live = iso.live
          /\ iso'.manager = iso.manager]_vars

\* the same for the cgroups v1 policy alone, whose Setup deletes the cgroup
\* it created
IsoV1FailedSetupLeavesNoTrace ==
    [][iso.kind = "v1" /\ SetupAddFails =>
          /\ iso'.last.ret = "err"
          /\ iso'.deleted = iso.deleted \cup {iso'.last.new}
          /\ iso'.live = iso.live
          /\ iso'.manager = iso.manager]_vars

====
